---- MODULE Spec2Model ----
(***************************************************************************)
(* Model of the autonomous quantum lab: the seeded backend simulator, the  *)
(* diachronic memory (trial ledger), the lab orchestrator and its two      *)
(* drivers (brute-force grid search and SPSA), and the N-qubit SPSA.       *)
(*                                                                         *)
(* Number representation.  Floats are modelled in fixed point:             *)
(*   - an angle is an integer number of units of 2*pi/TwoPi radians: the   *)
(*     integer x stands for the float x * 2*pi / 6283, so that a turn is   *)
(*     TwoPi units exactly and a unit is a milli-radian to within 3e-5,    *)
(*   - amplitudes and probabilities in units of 1/AmpScale (1e-8),         *)
(*   - the gains a, c in thousandths,                                      *)
(*   - p_flip in hundredths,                                               *)
(*   - energies as integers over the common denominator EnergyDen,         *)
(*   - a uniform draw r in [0,1) as an integer s with r = s / RngMod.      *)
(* random.Random(seed) is a deterministic generator: it is modelled as a   *)
(* full-period linear congruential generator over 0..RngStates-1 whose     *)
(* high bits are the draw, together with the number of draws taken so far  *)
(* (the stream position).                                                  *)
(* cos(theta/2) and sin(theta/2) are computed from the angle by quadrant   *)
(* reduction (period 4*pi) and their Taylor series, to within 2e-8.        *)
(* The state vector of the N-qubit backend is computed a second time at a  *)
(* resolution of 1e-12 (the definitions named ...Fine), where a tolerance  *)
(* of 1e-9 on its probabilities can be told from rounding.                 *)
(***************************************************************************)
EXTENDS Integers, Sequences, FiniteSets, TLC

(* ------------------------------ bounds -------------------------------- *)
MaxShots == 2
MaxSteps == 2
MaxGrid == 3
MaxTrials == 3
\* generator draws a session may take, and the position up to which an SPSA
\* call may run (two calls, or one call of three iterations)
MaxDraws == 17
MaxSpsaDraws == 23
MaxMultiDraws == 36

(* ----------------------- fixed-point constants ------------------------ *)
TwoPi == 6283
RngMod == 16
RngStates == 64
RngMul == 13
RngInc == 7
Milli == 10 ^ 3
FlipDen == 10 ^ 2

Labs == {1, 2}

(* ------------------------------- state -------------------------------- *)
\* A process runs one of the two modules: no caller imports both.
VARIABLES
  module,   \* "autonomous_quantum_lab" or "multi_qubit_lab"
  rng,      \* rng[l]: lab l's backend.rng
  trials,   \* trials[l]: lab l's memory.trials
  run,      \* run[l]: the frame of the spsa_optimize call in progress on lab l
  result,   \* result[l]: how the last call on lab l ended
  mrng,     \* the MultiQubitBackendSim's rng
  mrun,     \* the frame of the spsa_optimize_multi call in progress
  mresult   \* how the last spsa_optimize_multi call ended

labvars == <<rng, trials, run, result>>
multivars == <<mrng, mrun, mresult>>
vars == <<module, rng, trials, run, result, mrng, mrun, mresult>>


RECURSIVE Gcd(_, _)
Gcd(m, n) == IF n = 0 THEN m ELSE Gcd(n, m % n)

RECURSIVE LcmUpTo(_)
LcmUpTo(n) == IF n <= 1 THEN 1
              ELSE LET l == LcmUpTo(n - 1) IN (l * n) \div Gcd(l, n)

\* Energies are total / shots (and multiples of 1/2 per shot in the N-qubit
\* functional): every such value is an integer over EnergyDen.
EnergyDen == 2 * LcmUpTo(MaxShots)

Abs(x) == IF x < 0 THEN -x ELSE x

\* n / d rounded to the nearest integer (d > 0), halves rounded up.
RoundDiv(n, d) == (2 * n + d) \div (2 * d)

(* ------------------------------ the RNG ------------------------------- *)
\* random.Random(seed)
RngSeed(seed) == [state |-> seed % RngStates, pos |-> 0]

\* faulty variant: the draws go through one generator shared by the whole module: a
\* call is displaced by what the other lab's backend has consumed so far
RngNextShared(g) ==
  [state |-> (RngMul * g.state + RngInc + rng[2].pos) % RngStates, pos |-> g.pos + 1]

\* one call of rng.random(): the generator after the call
RngNext(g) ==
  [state |-> (RngMul * g.state + RngInc) % RngStates, pos |-> g.pos + 1]

\* the value s (r = s / RngMod) that the call returning generator g produced
RngVal(g) == g.state \div (RngStates \div RngMod)

(* ------------------------- DiachronicMemory --------------------------- *)
NoDiffText == "No previous diff (need at least 2 trials)."
DiffText == "dtheta=%+.4f, dE=%+.4f"

PlainNote(text) == [prefix |-> "", text |-> text, dtheta |-> 0, dE |-> 0]

\* faulty variant: the step argument is not stored
TrialNoStep(step, theta, shots, p_flip, energy, note) ==
  [step |-> 0, theta |-> theta, shots |-> shots, p_flip |-> p_flip,
   measured_energy |-> energy, note |-> note]

Trial(step, theta, shots, p_flip, energy, note) ==
  [step |-> step, theta |-> theta, shots |-> shots, p_flip |-> p_flip,
   measured_energy |-> energy, note |-> note]

\* faulty variant: the trial is inserted at the front
MemAddFront(ts, t) == <<t>> \o ts

\* faulty variant: the list of trials is one object shared by every lab
MemAddShared(ts, t) == Append(trials[2], t)

\* memory.add(trial)
MemAdd(ts, t) == Append(ts, t)

\* faulty variant: ties go to the later element
RECURSIVE MinIndexLast(_, _, _)
MinIndexLast(ts, i, besti) ==
  IF i > Len(ts) THEN besti
  ELSE MinIndexLast(ts, i + 1,
         IF ts[i].measured_energy <= ts[besti].measured_energy THEN i ELSE besti)

\* index of min(trials, key=measured_energy): the first minimal element
RECURSIVE MinIndexFrom(_, _, _)
MinIndexFrom(ts, i, besti) ==
  IF i > Len(ts) THEN besti
  ELSE MinIndexFrom(ts, i + 1,
         IF ts[i].measured_energy < ts[besti].measured_energy THEN i ELSE besti)

\* faulty variant: the final iterate is reported instead of the best trial
BestIsLast(ts) == IF ts = <<>> THEN <<>> ELSE <<ts[Len(ts)]>>

\* memory.best(): Optional[Trial] as a sequence of length 0 or 1
Best(ts) == IF ts = <<>> THEN <<>> ELSE <<ts[MinIndexFrom(ts, 2, 1)]>>

\* faulty variant: the oldest trial is returned
LastIsFirst(ts) == IF ts = <<>> THEN <<>> ELSE <<ts[1]>>

\* memory.last()
Last(ts) == IF ts = <<>> THEN <<>> ELSE <<ts[Len(ts)]>>

\* faulty variant: the difference is taken older minus newer
DiffLastTwoReversed(ts) ==
  IF Len(ts) < 2 THEN PlainNote(NoDiffText)
  ELSE LET a == ts[Len(ts)]
           b == ts[Len(ts) - 1]
           dtheta == b.theta - a.theta
           dE == b.measured_energy - a.measured_energy
       IN [prefix |-> "", text |-> DiffText,
           dtheta |-> dtheta * 10,
           dE |-> RoundDiv(dE * 10000, EnergyDen)]

\* faulty variant: the two trials before the most recent one are compared
DiffLastTwoStale(ts) ==
  IF Len(ts) < 3 THEN PlainNote(NoDiffText)
  ELSE LET a == ts[Len(ts) - 2]
           b == ts[Len(ts) - 1]
           dtheta == b.theta - a.theta
           dE == b.measured_energy - a.measured_energy
       IN [prefix |-> "", text |-> DiffText,
           dtheta |-> dtheta * 10,
           dE |-> RoundDiv(dE * 10000, EnergyDen)]

\* memory.diff_last_two(): the formatted text with its two numbers in 1e-4
DiffLastTwo(ts) ==
  IF Len(ts) < 2 THEN PlainNote(NoDiffText)
  ELSE LET a == ts[Len(ts) - 1]
           b == ts[Len(ts)]
           dtheta == b.theta - a.theta
           dE == b.measured_energy - a.measured_energy
       IN [prefix |-> "", text |-> DiffText,
           dtheta |-> dtheta * 10,
           dE |-> RoundDiv(dE * 10000, EnergyDen)]

(* ------------------------- QuantumBackendSim -------------------------- *)
\* float("nan"), and a negative float such as -1e-20 whose magnitude is below
\* half an ulp of 2*pi
NaN == 2 * 10 ^ 9
NegTiny == -(10 ^ 9)

\* the float 1.445468495626831 (1445.4259 units): math.cos(theta / 2.0) is
\* 0.75 exactly there, and 0.75 ** 2 is 0.5625 = 9/16 exactly
TieTheta == 5 * 10 ^ 8

\* a float in [-1, 1] is the integer nearest to AmpScale times it
AmpScale == 10 ^ 8

\* F applied to the value of v: the value is computed once, as the
\* assignment to a Python local does, however often F refers to it
Bind(v, F(_)) == CHOOSE r \in {F(x) : x \in {v}} : TRUE

\* the product x * y of two non-negative values, rounded to the nearest
\* 1/AmpScale; it is formed from limbs of 10^4 so that every intermediate
\* value fits 32 bits
MulU(x, y) ==
  LET mid == (x \div 10000) * (y % 10000) + (x % 10000) * (y \div 10000)
  IN (x \div 10000) * (y \div 10000) + (mid \div 10000)
     + RoundDiv((mid % 10000) * 10000 + (x % 10000) * (y % 10000), AmpScale)

\* the float product a * b; a product with nan is nan
MulS(a, b) ==
  Bind(<<a, b>>, LAMBDA p :
    IF p[1] = NaN \/ p[2] = NaN THEN NaN
    ELSE (IF (p[1] < 0) = (p[2] < 0) THEN 1 ELSE -1) * MulU(Abs(p[1]), Abs(p[2])))

\* the float sum a + b; a sum with nan is nan
AddS(a, b) == Bind(<<a, b>>, LAMBDA p : IF p[1] = NaN \/ p[2] = NaN THEN NaN
                                        ELSE p[1] + p[2])

\* m units of pi/(2*TwoPi) radians, in 1e-8 radians (pi/12566 = 25000.73734e-8)
Rad(m) == m * 25000 + RoundDiv(m * 73734, 100000)

\* one step of a Taylor series in Horner form, u = t * t:
\* acc := 1 - u * acc / d
Horner(u, acc, d) == Bind(acc, LAMBDA a : AmpScale - RoundDiv(MulU(u, a), d))

\* math.cos(t) (odd = FALSE, the series through t^10) or math.sin(t)
\* (odd = TRUE, through t^11) for 0 <= t <= pi/4, t in 1e-8 radians
Series(t, odd) ==
  Bind(MulU(t, t), LAMBDA u :
    IF odd
    THEN Bind(Horner(u, Horner(u, Horner(u, Horner(u, Horner(u,
                AmpScale, 110), 72), 42), 20), 6), LAMBDA h : MulU(t, h))
    ELSE Horner(u, Horner(u, Horner(u, Horner(u, Horner(u,
                AmpScale, 90), 56), 30), 12), 2))

\* cos (odd = FALSE) or sin (odd = TRUE) of m units of pi/(2*TwoPi),
\* 0 <= m < TwoPi (a quarter turn): above pi/4 the complementary angle is used
Quarter(m, odd) ==
  IF 2 * m < TwoPi THEN Series(Rad(m), odd) ELSE Series(Rad(TwoPi - m), ~odd)

\* math.cos(theta / 2.0): theta / 2 is 2 * theta units of pi/(2*TwoPi), of
\* period 4 * TwoPi, and lies in quarter turn k at offset m, where the cosine
\* is cos m, -sin m, -cos m, sin m for k = 0, 1, 2, 3
CosHalf(theta) ==
  IF theta = NaN THEN NaN
  ELSE IF theta = NegTiny THEN AmpScale
  ELSE IF theta = TieTheta THEN 75000000
  ELSE LET k == ((2 * theta) % (4 * TwoPi)) \div TwoPi
       IN (IF k \in {1, 2} THEN -1 ELSE 1) * Quarter((2 * theta) % TwoPi, k % 2 = 1)

\* math.sin(theta / 2.0): sin m, cos m, -sin m, -cos m for k = 0, 1, 2, 3;
\* at the float of TieTheta it is 0.6614378277661476
SinHalf(theta) ==
  IF theta = NaN THEN NaN
  ELSE IF theta = NegTiny THEN 0
  ELSE IF theta = TieTheta THEN 66143783
  ELSE LET k == ((2 * theta) % (4 * TwoPi)) \div TwoPi
       IN (IF k \in {2, 3} THEN -1 ELSE 1) * Quarter((2 * theta) % TwoPi, k % 2 = 0)

\* _ideal_prob_zero(theta) = math.cos(theta / 2.0) ** 2 as a fraction
\* [num, den]; math.cos(nan) is nan, and no draw is below nan
IdealProbZero(theta) ==
  Bind(CosHalf(theta), LAMBDA c :
    IF c = NaN THEN [num |-> 0, den |-> AmpScale]
    ELSE [num |-> MulS(c, c), den |-> AmpScale])

\* float("inf"); every finite angle of the model lies far below it
Inf == 10 ^ 9

\* math.cos(x) raises ValueError (math domain error) when x is infinite
MathCosRaises(theta) == theta = Inf

ShotsOk(shots) == shots > 0

\* faulty variant: the bounds 0 and 1 are excluded
PFlipOkOpen(p_flip) == 0 < p_flip /\ p_flip < FlipDen

PFlipOk(p_flip) == 0 <= p_flip /\ p_flip <= FlipDen

\* the guard of measure_expectation_z: TRUE when the call raises ValueError
MeasureRaises(shots, p_flip) == ~ShotsOk(shots) \/ ~PFlipOk(p_flip)

\* faulty variant: the comparison of the flip draw is reversed
ShotZFlipReversed(g, p0, p_flip) ==
  LET g1 == RngNext(g)
      is_zero == RngVal(g1) * p0.den < p0.num * RngMod
      z == IF is_zero THEN 1 ELSE -1
      g2 == RngNext(g1)
      flip == RngVal(g2) * FlipDen > p_flip * RngMod
  IN [rng |-> g2, z |-> IF flip THEN -z ELSE z]

\* one shot: [rng, z]
ShotZ(g, p0, p_flip) ==
  LET g1 == RngNext(g)
      is_zero == RngVal(g1) * p0.den < p0.num * RngMod
      z == IF is_zero THEN 1 ELSE -1
      g2 == RngNext(g1)
      flip == RngVal(g2) * FlipDen < p_flip * RngMod
  IN [rng |-> g2, z |-> IF flip THEN -z ELSE z]

RECURSIVE ShotLoop(_, _, _, _, _)
ShotLoop(g, p0, p_flip, left, total_z) ==
  IF left = 0 THEN [rng |-> g, total |-> total_z]
  ELSE Bind(ShotZ(g, p0, p_flip), LAMBDA s :
         ShotLoop(s.rng, p0, p_flip, left - 1, total_z + s.z))

\* measure_expectation_z(theta, shots, p_flip):
\* [raised, rng, energy]; a raising call returns the generator untouched
MeasureExpectationZ(g, theta, shots, p_flip) ==
  IF MeasureRaises(shots, p_flip)
  THEN [raised |-> TRUE, rng |-> g, energy |-> 0]
  ELSE IF MathCosRaises(theta)
  THEN [raised |-> TRUE, rng |-> g, energy |-> 0]
  ELSE Bind(ShotLoop(g, IdealProbZero(theta), p_flip, shots, 0), LAMBDA r :
         [raised |-> FALSE, rng |-> r.rng,
          energy |-> (r.total * EnergyDen) \div shots])

(* ------------------------ AutonomousQuantumLab ------------------------ *)
\* faulty variant: the angle is stored as given
WrapAngleNone(theta) == theta

\* wrap_angle(theta) = theta % (2.0 * math.pi) on floats: a negative angle
\* smaller than half an ulp of 2*pi gives 2*pi itself, and inf gives nan
WrapAngle(theta) ==
  IF theta = NegTiny THEN TwoPi
  ELSE IF theta = Inf \/ theta = NaN THEN NaN
  ELSE IF theta = TieTheta THEN TieTheta
  ELSE theta % TwoPi

\* faulty variant: a failed evaluation is logged with a default energy
RunExperimentLogsFailure(g, ts, step, theta, shots, p_flip, note) ==
  LET theta_wrapped == WrapAngle(theta)
      m == MeasureExpectationZ(g, theta_wrapped, shots, p_flip)
  IN IF m.raised
     THEN [raised |-> TRUE, rng |-> m.rng,
           trials |-> MemAdd(ts, Trial(step, theta_wrapped, shots, p_flip, 0, note)),
           energy |-> 0]
     ELSE [raised |-> FALSE, rng |-> m.rng,
           trials |-> MemAdd(ts, Trial(step, theta_wrapped, shots, p_flip, m.energy, note)),
           energy |-> m.energy]

\* run_experiment(step, theta, shots, p_flip, note): [raised, rng, trials, energy]
RunExperiment(g, ts, step, theta, shots, p_flip, note) ==
  LET theta_wrapped == WrapAngle(theta)
  IN Bind(MeasureExpectationZ(g, theta_wrapped, shots, p_flip), LAMBDA m :
       IF m.raised
       THEN [raised |-> TRUE, rng |-> m.rng, trials |-> ts, energy |-> 0]
       ELSE [raised |-> FALSE, rng |-> m.rng,
             trials |-> MemAdd(ts, Trial(step, theta_wrapped, shots, p_flip, m.energy, note)),
             energy |-> m.energy])

\* the grid-search loop from index i on; stops at the first raising experiment
RECURSIVE GridLoop(_, _, _, _, _, _)
GridLoop(g, ts, i, grid_points, shots, p_flip) ==
  IF i >= grid_points THEN [raised |-> FALSE, rng |-> g, trials |-> ts]
  ELSE LET theta == (TwoPi * i) \div grid_points
       IN Bind(RunExperiment(g, ts, i, theta, shots, p_flip,
                             PlainNote("brute_force_grid_search")),
               LAMBDA e :
                 IF e.raised THEN [raised |-> TRUE, rng |-> e.rng, trials |-> e.trials]
                 ELSE GridLoop(e.rng, e.trials, i + 1, grid_points, shots, p_flip))

\* faulty variant: a grid of one point is accepted
GridPointsOkOne(grid_points) == grid_points > 0

\* the guard of brute_force_grid_search
GridPointsOk(grid_points) == grid_points > 1

\* faulty variant: the best of the grid's own Trials is returned
BruteForceGridSearchOwnBest(g, ts, shots, p_flip, grid_points) ==
  IF ~GridPointsOk(grid_points)
  THEN [raised |-> TRUE, rng |-> g, trials |-> ts, best |-> <<>>]
  ELSE LET r == GridLoop(g, ts, 0, grid_points, shots, p_flip)
       IN [raised |-> r.raised, rng |-> r.rng, trials |-> r.trials,
           best |-> IF r.raised THEN <<>>
                    ELSE Best(SubSeq(r.trials, Len(ts) + 1, Len(r.trials)))]

\* brute_force_grid_search(lab, shots, p_flip, grid_points): [raised, rng, trials, best]
BruteForceGridSearch(g, ts, shots, p_flip, grid_points) ==
  IF ~GridPointsOk(grid_points)
  THEN [raised |-> TRUE, rng |-> g, trials |-> ts, best |-> <<>>]
  ELSE Bind(GridLoop(g, ts, 0, grid_points, shots, p_flip), LAMBDA r :
         [raised |-> r.raised, rng |-> r.rng, trials |-> r.trials,
          best |-> IF r.raised THEN <<>> ELSE Best(r.trials)])

(* ------------------------------- SPSA --------------------------------- *)
\* k ** 0.602 and k ** 0.101 in thousandths
Pow602(k) == CASE k = 1 -> 1000 [] k = 2 -> 1518 [] k = 3 -> 1937
               [] k = 4 -> 2304 [] OTHER -> 2635
Pow101(k) == CASE k = 1 -> 1000 [] k = 2 -> 1073 [] k = 3 -> 1117
               [] k = 4 -> 1150 [] OTHER -> 1177

\* ak = a / k**0.602 and ck = c / k**0.101, in thousandths
GainA(a, k) == RoundDiv(a * Milli, Pow602(k))
GainC(c, k) == RoundDiv(c * Milli, Pow101(k))

\* faulty variant: range(1, steps): the loop stops one iteration early
LoopNextShort(k, steps) == IF k < steps - 1 THEN "delta" ELSE "return"

\* for k in range(1, steps + 1): where the loop goes after iteration k
LoopNext(k, steps) == IF k < steps THEN "delta" ELSE "return"

\* the guards of spsa_optimize
StepsOk(steps) == steps > 0
GainsOk(a, c) == a > 0 /\ c > 0
SpsaArgsRaise(steps, a, c) == ~StepsOk(steps) \/ ~GainsOk(a, c)

\* delta = +1 if rng.random() < 0.5 else -1
DeltaOf(g) == IF RngVal(g) * 2 < RngMod THEN 1 ELSE -1

\* rng.random() * 2.0 * math.pi
InitialTheta(g) == (RngVal(g) * TwoPi) \div RngMod

\* ak * g_hat in angle units (a thousandth of a radian),
\* g_hat = (e_plus - e_minus) / (2.0 * ck * delta)
SpsaStep(ak, ck, delta, e_plus, e_minus) ==
  LET n == ak * (e_plus - e_minus) * Milli * delta
      d == 2 * ck * EnergyDen
  IN RoundDiv(n, d)

\* faulty variant: the step is taken up the gradient
SpsaUpdateAscent(theta, ak, ck, delta, e_plus, e_minus) ==
  WrapAngle(theta + SpsaStep(ak, ck, delta, e_plus, e_minus))

\* theta = wrap_angle(theta - ak * g_hat)
SpsaUpdate(theta, ak, ck, delta, e_plus, e_minus) ==
  WrapAngle(theta - SpsaStep(ak, ck, delta, e_plus, e_minus))

\* faulty variant: the first iteration asks for a diff as well
SpsaNoteNoInit(ts, k) == [DiffLastTwo(ts) EXCEPT !.prefix = "SPSA update; "]

\* the note of iteration k, built before run_experiment is entered
SpsaNote(ts, k) ==
  IF k > 1 THEN [DiffLastTwo(ts) EXCEPT !.prefix = "SPSA update; "]
  ELSE [PlainNote("init") EXCEPT !.prefix = "SPSA update; "]

\* iterations k .. steps of spsa_optimize run without interruption
RECURSIVE SpsaLoop(_, _, _, _, _, _, _, _, _)
SpsaLoop(g, ts, theta, k, shots, p_flip, steps, a, c) ==
  LET ak == GainA(a, k)
      ck == GainC(c, k)
      g1 == RngNext(g)
      delta == DeltaOf(g1)
      p == MeasureExpectationZ(g1, WrapAngle(theta + ck * delta), shots, p_flip)
      m == MeasureExpectationZ(p.rng, WrapAngle(theta - ck * delta), shots, p_flip)
      theta1 == SpsaUpdate(theta, ak, ck, delta, p.energy, m.energy)
      e == RunExperiment(m.rng, ts, k, theta1, shots, p_flip, SpsaNote(ts, k))
  IN IF p.raised THEN [raised |-> TRUE, rng |-> g1, trials |-> ts]
     ELSE IF m.raised THEN [raised |-> TRUE, rng |-> p.rng, trials |-> ts]
     ELSE IF e.raised THEN [raised |-> TRUE, rng |-> m.rng, trials |-> ts]
     ELSE IF LoopNext(k, steps) = "delta"
          THEN SpsaLoop(e.rng, e.trials, theta1, k + 1, shots, p_flip, steps, a, c)
          ELSE [raised |-> FALSE, rng |-> e.rng, trials |-> e.trials]

\* spsa_optimize(lab, shots, p_flip, steps, a, c) run from entry to exit with
\* nothing in between: [raised, rng, trials, best]
SpsaOptimize(g, ts, shots, p_flip, steps, a, c) ==
  IF SpsaArgsRaise(steps, a, c)
  THEN [raised |-> TRUE, rng |-> g, trials |-> ts, best |-> <<>>]
  ELSE LET g1 == RngNext(g)
           r == SpsaLoop(g1, ts, InitialTheta(g1), 1, shots, p_flip, steps, a, c)
       IN [raised |-> r.raised, rng |-> r.rng, trials |-> r.trials,
           best |-> IF r.raised THEN <<>> ELSE Best(r.trials)]

(* ------------------------ multi_qubit_lab.py -------------------------- *)
\* An amplitude is a float scaled by AmpScale: the imaginary part of every
\* amplitude is 0 (the gates and the initial state are real).
\* _ry(theta) = (c, -s, s, c)
Ry(theta) ==
  Bind(<<CosHalf(theta), SinHalf(theta)>>, LAMBDA cs :
    <<cs[1], IF cs[2] = NaN THEN NaN ELSE -cs[2], cs[2], cs[1]>>)

\* (i >> q) & 1
Bit(i, q) == (i \div (2 ^ q)) % 2

\* faulty variant: state[j] is computed from the already overwritten state[i]
RECURSIVE GateLoopInPlace(_, _, _, _, _)
GateLoopInPlace(state, gate, qubit, n, i) ==
  IF i >= 2 ^ n THEN state
  ELSE IF Bit(i, qubit) = 1 THEN GateLoopInPlace(state, gate, qubit, n, i + 1)
  ELSE LET j == i + 2 ^ qubit
           a1 == state[j + 1]
           st1 == [state EXCEPT ![i + 1] = AddS(MulS(gate[1], state[i + 1]), MulS(gate[2], a1))]
           st2 == [st1 EXCEPT ![j + 1] = AddS(MulS(gate[3], st1[i + 1]), MulS(gate[4], a1))]
       IN Bind(st2, LAMBDA st : GateLoopInPlace(st, gate, qubit, n, i + 1))

\* the loop of _apply_single_qubit_gate from index i on; state[i + 1] holds
\* the amplitude of basis index i
RECURSIVE GateLoop(_, _, _, _, _)
GateLoop(state, gate, qubit, n, i) ==
  IF i >= 2 ^ n THEN state
  ELSE IF Bit(i, qubit) = 1 THEN GateLoop(state, gate, qubit, n, i + 1)
  ELSE LET j == i + 2 ^ qubit
           a0 == state[i + 1]
           a1 == state[j + 1]
           st1 == [state EXCEPT ![i + 1] = AddS(MulS(gate[1], a0), MulS(gate[2], a1))]
           st2 == [st1 EXCEPT ![j + 1] = AddS(MulS(gate[3], a0), MulS(gate[4], a1))]
       IN Bind(st2, LAMBDA st : GateLoop(st, gate, qubit, n, i + 1))

ApplySingleQubitGate(state, gate, qubit, n) == GateLoop(state, gate, qubit, n, 0)

\* faulty variant: state[i] = state[j] without the exchange
RECURSIVE CnotLoopCopy(_, _, _, _, _)
CnotLoopCopy(state, control, target, n, i) ==
  IF i >= 2 ^ n THEN state
  ELSE IF Bit(i, control) = 0 THEN CnotLoopCopy(state, control, target, n, i + 1)
  ELSE IF Bit(i, target) = 1 THEN CnotLoopCopy(state, control, target, n, i + 1)
  ELSE LET j == i + 2 ^ target
           st == [state EXCEPT ![i + 1] = state[j + 1]]
       IN Bind(st, LAMBDA sw : CnotLoopCopy(sw, control, target, n, i + 1))

\* faulty variant: the control bit is not tested
RECURSIVE CnotLoopNoControl(_, _, _, _, _)
CnotLoopNoControl(state, control, target, n, i) ==
  IF i >= 2 ^ n THEN state
  ELSE IF Bit(i, target) = 1 THEN CnotLoopNoControl(state, control, target, n, i + 1)
  ELSE LET j == i + 2 ^ target
           st == [state EXCEPT ![i + 1] = state[j + 1], ![j + 1] = state[i + 1]]
       IN Bind(st, LAMBDA sw : CnotLoopNoControl(sw, control, target, n, i + 1))

\* the loop of _apply_cnot from index i on
RECURSIVE CnotLoop(_, _, _, _, _)
CnotLoop(state, control, target, n, i) ==
  IF i >= 2 ^ n THEN state
  ELSE IF Bit(i, control) = 0 THEN CnotLoop(state, control, target, n, i + 1)
  ELSE IF Bit(i, target) = 1 THEN CnotLoop(state, control, target, n, i + 1)
  ELSE LET j == i + 2 ^ target
           st == [state EXCEPT ![i + 1] = state[j + 1], ![j + 1] = state[i + 1]]
       IN Bind(st, LAMBDA sw : CnotLoop(sw, control, target, n, i + 1))

ApplyCnot(state, control, target, n) == CnotLoop(state, control, target, n, 0)

RECURSIVE RotationLayer(_, _, _)
RotationLayer(state, thetas, idx) ==
  IF idx >= Len(thetas) THEN state
  ELSE Bind(ApplySingleQubitGate(state, Ry(thetas[idx + 1]), idx, Len(thetas)),
            LAMBDA st : RotationLayer(st, thetas, idx + 1))

RECURSIVE CnotChain(_, _, _)
CnotChain(state, n, idx) ==
  IF idx >= n - 1 THEN state
  ELSE Bind(ApplyCnot(state, idx, idx + 1, n), LAMBDA st : CnotChain(st, n, idx + 1))

\* _statevector_from_thetas(thetas)
StatevectorFromThetas(thetas) ==
  LET n == Len(thetas)
      zero == [i \in 1..(2 ^ n) |-> IF i = 1 THEN AmpScale ELSE 0]
  IN CnotChain(RotationLayer(zero, thetas, 0), n, 0)

\* the state after the rotation layer and after each step of the CNOT chain
RECURSIVE CnotStages(_, _, _)
CnotStages(state, n, idx) ==
  IF idx >= n - 1 THEN <<>>
  ELSE Bind(ApplyCnot(state, idx, idx + 1, n),
            LAMBDA st : <<st>> \o CnotStages(st, n, idx + 1))

StatevectorStages(thetas) ==
  LET n == Len(thetas)
      zero == [i \in 1..(2 ^ n) |-> IF i = 1 THEN AmpScale ELSE 0]
  IN Bind(RotationLayer(zero, thetas, 0), LAMBDA st : <<st>> \o CnotStages(st, n, 0))

\* probs = [abs(a) ** 2 for a in state], in units of 1/AmpScale
Probs(state) == [i \in 1..Len(state) |-> MulS(state[i], state[i])]

(* The same state vector carried to 1e-12.  A float in [-1, 1] is           *)
(* <<s, h, m, l>>, standing for s * (h * 10^8 + m * 10^4 + l) / 10^12 with  *)
(* s in {1, -1}, m and l in 0..9999 and h in 0..10^4; like a float, zero    *)
(* carries a sign.                                                          *)
Limb == 10 ^ 4
FineOne == <<1, Limb, 0, 0>>
FineZero == <<1, 0, 0, 0>>

\* the limbs brought back into 0..9999: m and l may have left that range,
\* the value h * 10^8 + m * 10^4 + l is not negative
Carry(s, h, m, l) ==
  LET m2 == m + (l \div Limb)
  IN <<s, h + (m2 \div Limb), m2 % Limb, l % Limb>>

\* the float product x * y, rounded to the nearest 1e-12
MulFine(x, y) ==
  LET k1 == x[3] * y[4] + x[4] * y[3] + ((x[4] * y[4]) \div Limb)
      k2 == x[2] * y[4] + x[3] * y[3] + x[4] * y[2] + (k1 \div Limb)
      k3 == x[2] * y[3] + x[3] * y[2] + (k2 \div Limb)
            + (IF 2 * (k2 % Limb) >= Limb THEN 1 ELSE 0)
  IN Carry(x[1] * y[1], 0, x[2] * y[2], k3)

\* x / d for a small positive integer d, rounded to the nearest 1e-12
DivFine(x, d) ==
  LET t2 == (x[2] % d) * Limb + x[3]
      t3 == (t2 % d) * Limb + x[4]
  IN Carry(x[1], x[2] \div d, t2 \div d, RoundDiv(t3, d))

\* the float sum a + b
AddFine(a, b) ==
  IF a[1] = b[1] THEN Carry(a[1], a[2] + b[2], a[3] + b[3], a[4] + b[4])
  ELSE Bind(Carry(a[1], a[2] - b[2], a[3] - b[3], a[4] - b[4]), LAMBDA d :
         IF d[2] >= 0 THEN d
         ELSE Carry(b[1], b[2] - a[2], b[3] - a[3], b[4] - a[4]))

NegFine(x) == <<-x[1], x[2], x[3], x[4]>>

\* m units of pi/(2*TwoPi) radians (pi/12566 = 2.500073733559e-4)
RadFine(m) == Carry(1, 2 * m, 5000 * m, 7373 * m + RoundDiv(3559 * m, Limb))

\* acc := 1 - u * acc / d
HornerFine(u, acc, d) ==
  Bind(DivFine(MulFine(u, acc), d), LAMBDA q : Carry(1, Limb - q[2], -q[3], -q[4]))

\* math.cos(t) (odd = FALSE, the series through t^14) or math.sin(t)
\* (odd = TRUE, through t^15) for 0 <= t <= pi/4
SeriesFine(t, odd) ==
  Bind(MulFine(t, t), LAMBDA u :
    IF odd
    THEN Bind(HornerFine(u, HornerFine(u, HornerFine(u, HornerFine(u, HornerFine(u,
                HornerFine(u, HornerFine(u, FineOne, 210), 156), 110), 72), 42),
                20), 6), LAMBDA h : MulFine(t, h))
    ELSE HornerFine(u, HornerFine(u, HornerFine(u, HornerFine(u, HornerFine(u,
                HornerFine(u, HornerFine(u, FineOne, 182), 132), 90), 56), 30),
                12), 2))

QuarterFine(m, odd) ==
  IF 2 * m < TwoPi THEN SeriesFine(RadFine(m), odd)
  ELSE SeriesFine(RadFine(TwoPi - m), ~odd)

\* math.cos(theta / 2.0) and math.sin(theta / 2.0) of a finite angle, by the
\* quadrant reduction of CosHalf and SinHalf
CosHalfFine(theta) ==
  LET k == ((2 * theta) % (4 * TwoPi)) \div TwoPi
  IN Bind(QuarterFine((2 * theta) % TwoPi, k % 2 = 1), LAMBDA v :
       IF k \in {1, 2} THEN NegFine(v) ELSE v)

SinHalfFine(theta) ==
  LET k == ((2 * theta) % (4 * TwoPi)) \div TwoPi
  IN Bind(QuarterFine((2 * theta) % TwoPi, k % 2 = 0), LAMBDA v :
       IF k \in {2, 3} THEN NegFine(v) ELSE v)

\* _ry(theta) = (c, -s, s, c)
RyFine(theta) ==
  Bind(<<CosHalfFine(theta), SinHalfFine(theta)>>, LAMBDA cs :
    <<cs[1], NegFine(cs[2]), cs[2], cs[1]>>)

\* the loop of _apply_single_qubit_gate from index i on
RECURSIVE GateLoopFine(_, _, _, _, _)
GateLoopFine(state, gate, qubit, n, i) ==
  IF i >= 2 ^ n THEN state
  ELSE IF Bit(i, qubit) = 1 THEN GateLoopFine(state, gate, qubit, n, i + 1)
  ELSE LET j == i + 2 ^ qubit
           a0 == state[i + 1]
           a1 == state[j + 1]
           st1 == [state EXCEPT ![i + 1] = AddFine(MulFine(gate[1], a0), MulFine(gate[2], a1))]
           st2 == [st1 EXCEPT ![j + 1] = AddFine(MulFine(gate[3], a0), MulFine(gate[4], a1))]
       IN Bind(st2, LAMBDA st : GateLoopFine(st, gate, qubit, n, i + 1))

RECURSIVE RotationLayerFine(_, _, _)
RotationLayerFine(state, thetas, idx) ==
  IF idx >= Len(thetas) THEN state
  ELSE Bind(GateLoopFine(state, RyFine(thetas[idx + 1]), idx, Len(thetas), 0),
            LAMBDA st : RotationLayerFine(st, thetas, idx + 1))

\* _statevector_from_thetas(thetas)
StatevectorFine(thetas) ==
  LET n == Len(thetas)
      zero == [i \in 1..(2 ^ n) |-> IF i = 1 THEN FineOne ELSE FineZero]
  IN CnotChain(RotationLayerFine(zero, thetas, 0), n, 0)

\* the state after the rotation layer and after each step of the CNOT chain
StatevectorStagesFine(thetas) ==
  LET n == Len(thetas)
      zero == [i \in 1..(2 ^ n) |-> IF i = 1 THEN FineOne ELSE FineZero]
  IN Bind(RotationLayerFine(zero, thetas, 0), LAMBDA st : <<st>> \o CnotStages(st, n, 0))

\* probs = [abs(a) ** 2 for a in state]
ProbsFine(state) == [i \in 1..Len(state) |-> MulFine(state[i], state[i])]

\* the loop of _sample_bitstring: r <= acc, with r = s / RngMod and the
\* probabilities over the denominator den; no draw is <= nan
RECURSIVE SampleLoop(_, _, _, _, _)
SampleLoop(s, probs, den, i, acc) ==
  IF i >= Len(probs) THEN Len(probs) - 1
  ELSE LET acc1 == AddS(acc, probs[i + 1])
       IN IF acc1 # NaN /\ s * den <= acc1 * RngMod THEN i
          ELSE SampleLoop(s, probs, den, i + 1, acc1)

\* _sample_bitstring(rng, probs): [rng, bits]
SampleBitstring(g, probs, den) ==
  LET g1 == RngNext(g)
  IN [rng |-> g1, bits |-> SampleLoop(RngVal(g1), probs, den, 0, 0)]

BitToZ(bit) == IF bit = 0 THEN 1 ELSE -1

RECURSIVE SumZ(_, _, _)
SumZ(bits, n, i) == IF i >= n THEN 0 ELSE BitToZ(Bit(bits, i)) + SumZ(bits, n, i + 1)

RECURSIVE SumPairs(_, _, _, _)
SumPairs(bits, n, i, j) ==
  IF i >= n THEN 0
  ELSE IF j >= n THEN SumPairs(bits, n, i + 1, i + 2)
  ELSE BitToZ(Bit(bits, i)) * BitToZ(Bit(bits, j)) + SumPairs(bits, n, i, j + 1)

\* faulty variant: the pair term is taken with weight 1 instead of 0.5
EnergyForBitstringFullCoupling(bits, n) ==
  2 * SumZ(bits, n, 0) + 2 * SumPairs(bits, n, 0, 1)

\* 2 * _energy_for_bitstring(bits, n)
EnergyForBitstring2(bits, n) == 2 * SumZ(bits, n, 0) + SumPairs(bits, n, 0, 1)

\* bits ^= (1 << q)
FlipBit(bits, q) == IF Bit(bits, q) = 0 THEN bits + 2 ^ q ELSE bits - 2 ^ q

\* faulty variant: no flip draw is taken when p_flip is 0
RECURSIVE FlipLoopSkip(_, _, _, _, _)
FlipLoopSkip(g, bits, p_flip, n, q) ==
  IF q >= n \/ p_flip = 0 THEN [rng |-> g, bits |-> bits]
  ELSE LET g1 == RngNext(g)
           flip == RngVal(g1) * FlipDen < p_flip * RngMod
       IN FlipLoopSkip(g1, IF flip THEN FlipBit(bits, q) ELSE bits, p_flip, n, q + 1)

\* the independent bit flips of one shot, qubit q on: [rng, bits]
RECURSIVE FlipLoop(_, _, _, _, _)
FlipLoop(g, bits, p_flip, n, q) ==
  IF q >= n THEN [rng |-> g, bits |-> bits]
  ELSE LET g1 == RngNext(g)
           flip == RngVal(g1) * FlipDen < p_flip * RngMod
       IN FlipLoop(g1, IF flip THEN FlipBit(bits, q) ELSE bits, p_flip, n, q + 1)

RECURSIVE MultiShotLoop(_, _, _, _, _, _, _)
MultiShotLoop(g, probs, den, n, p_flip, left, total2) ==
  IF left = 0 THEN [rng |-> g, total2 |-> total2]
  ELSE LET sm == SampleBitstring(g, probs, den)
           fl == FlipLoop(sm.rng, sm.bits, p_flip, n, 0)
       IN MultiShotLoop(fl.rng, probs, den, n, p_flip, left - 1,
                        total2 + EnergyForBitstring2(fl.bits, n))

\* the guard of measure_energy: TRUE when the call raises ValueError
MultiMeasureRaises(shots, p_flip) ==
  shots <= 0 \/ ~(0 <= p_flip /\ p_flip <= FlipDen)

\* MultiQubitBackendSim.measure_energy(thetas, shots, p_flip): [raised, rng, energy]
MeasureEnergy(g, thetas, shots, p_flip) ==
  IF MultiMeasureRaises(shots, p_flip)
  THEN [raised |-> TRUE, rng |-> g, energy |-> 0]
  ELSE IF \E i \in DOMAIN thetas : MathCosRaises(thetas[i])
  THEN [raised |-> TRUE, rng |-> g, energy |-> 0]
  ELSE LET n == Len(thetas)
           state == StatevectorFromThetas(thetas)
           Shots(probs) == MultiShotLoop(g, probs, AmpScale, n, p_flip, shots, 0)
           Mean(r) == [raised |-> FALSE, rng |-> r.rng,
                       energy |-> (r.total2 * (EnergyDen \div 2)) \div shots]
       IN Bind(Bind(Bind(state, Probs), Shots), Mean)

\* _wrap_thetas(thetas)
WrapThetas(thetas) == [i \in 1..Len(thetas) |-> WrapAngle(thetas[i])]

MultiTrial(step, thetas, shots, p_flip, energy) ==
  [step |-> step, thetas |-> thetas, shots |-> shots, p_flip |-> p_flip,
   measured_energy |-> energy]

\* MultiMemory.best()
MultiBest(ts) == IF ts = <<>> THEN <<>> ELSE <<ts[MinIndexFrom(ts, 2, 1)]>>

\* n successive draws of rng.random(): [rng, vals]
RECURSIVE DrawN(_, _, _)
DrawN(g, n, vals) ==
  IF n = 0 THEN [rng |-> g, vals |-> vals]
  ELSE LET g1 == RngNext(g) IN DrawN(g1, n - 1, Append(vals, RngVal(g1)))

(* --------------------------- frames and results ----------------------- *)
IdleRun == [pc |-> "idle", k |-> 0, theta |-> 0, delta |-> 0,
            e_plus |-> 0, e_minus |-> 0,
            shots |-> 0, p_flip |-> 0, steps |-> 0, a |-> 0, c |-> 0,
            rng0 |-> RngSeed(0), trials0 |-> <<>>]

\* result of a call: op, whether it raised ValueError, the float it returned,
\* the Optional[Trial] it returned, the text it returned, and the generator
\* and ledger as they were when the call was entered; args are the arguments
\* of a spsa_optimize call that got past its argument checks
Result(op, args, raised, energy, trial, text, g0, ts0) ==
  [op |-> op, args |-> args, raised |-> raised, energy |-> energy,
   trial |-> trial, text |-> text, rng0 |-> g0, trials0 |-> ts0]

NoResult == Result("none", <<>>, FALSE, 0, <<>>, PlainNote(""), RngSeed(0), <<>>)

(* ------------------------------- inputs ------------------------------- *)
Seeds == {0, 1}
\* direct measurements: pi, an angle beyond 2*pi, and float("inf")
ThetaInputs == {3142, 7330, Inf}
ShotsInputs == 0..MaxShots
PFlipInputs == {-10, 0, 100, 110}
\* run_experiment
StepInputs == {0, 1}
ExpThetaInputs == {7330}
ExpPFlipInputs == {0, 110}
ExpShotsInputs == {0, 1}
\* <<shots, p_flip>> of a measurement inside a longer session
NoiseInputs == {<<1, 0>>, <<MaxShots, 100>>, <<0, 0>>, <<1, 110>>}
\* the drivers: <<shots, p_flip>> and <<a, c>>
DriverNoise == {<<1, 0>>, <<1, 50>>, <<0, 0>>, <<1, 110>>}
GridInputs == 1..MaxGrid
\* <<shots, p_flip, steps, a, c>>: valid calls of every length, without and
\* with noise and with a perturbation of pi/3, and calls with one or two
\* invalid arguments
DriverCalls ==
  {<<ns[1], ns[2], n, 600, 200>> : ns \in {<<1, 0>>, <<1, 50>>}, n \in 1..MaxSteps}
  \cup {<<1, 0, n, 600, 1047>> : n \in 1..MaxSteps}
  \cup {<<0, 0, 1, 600, 200>>, <<1, 110, 1, 600, 200>>, <<1, -10, 1, 600, 200>>,
        <<1, 0, 0, 600, 200>>, <<1, 0, -1, 600, 200>>, <<1, 0, 1, 0, 200>>,
        <<1, 0, 1, 600, 0>>, <<1, 0, 1, -600, 200>>, <<1, 0, 1, 600, -200>>,
        <<0, 0, 0, 600, 200>>, <<0, 0, 1, 600, 0>>}
\* memory.add: a Trial no measurement returns (one shot, energy -3.0)
AddInputs == {Trial(9, 3142, 1, 0, -3 * EnergyDen, PlainNote("added"))}
\* history.add on the memory spsa_optimize_multi returned
MultiAddInputs == {MultiTrial(9, <<3142>>, 1, 0, -3 * EnergyDen)}
QubitInputs == {1, 2}
MultiThetaInputs == {<<3142>>, <<1047, 7330>>, <<1047, Inf>>}

Idle(l) == module = "autonomous_quantum_lab" /\ run[l].pc = "idle"

\* draws a successful measurement takes
MeasureDraws(shots) == 2 * shots
Room(l, draws) == rng[l].pos + draws <= MaxDraws

(* --------------------------- lab operations --------------------------- *)
\* backend.measure_expectation_z(theta, shots, p_flip)
DoMeasure(l, theta, shots, p_flip) ==
  /\ UNCHANGED <<module, multivars>>
  /\ Idle(l)
  /\ Room(l, MeasureDraws(shots))
  /\ LET m == MeasureExpectationZ(rng[l], theta, shots, p_flip)
     IN /\ rng' = [rng EXCEPT ![l] = m.rng]
        /\ result' = [result EXCEPT ![l] =
             Result("measure_expectation_z", <<>>, m.raised, m.energy, <<>>,
                    PlainNote(""), rng[l], trials[l])]
  /\ UNCHANGED <<trials, run>>

\* lab.run_experiment(step, theta, shots, p_flip, note)
DoRunExperiment(l, step, theta, shots, p_flip) ==
  /\ UNCHANGED <<module, multivars>>
  /\ Idle(l)
  /\ Room(l, MeasureDraws(shots))
  /\ Len(trials[l]) < MaxTrials
  /\ LET e == RunExperiment(rng[l], trials[l], step, theta, shots, p_flip,
                            PlainNote("manual"))
     IN /\ rng' = [rng EXCEPT ![l] = e.rng]
        /\ trials' = [trials EXCEPT ![l] = e.trials]
        /\ result' = [result EXCEPT ![l] =
             Result("run_experiment", <<>>, e.raised, e.energy, <<>>,
                    PlainNote(""), rng[l], trials[l])]
  /\ UNCHANGED run

\* lab.memory.add(trial): the Trial is stored as given, behind the others
DoAdd(l, trial) ==
  /\ UNCHANGED <<module, multivars>>
  /\ Idle(l)
  /\ Len(trials[l]) < MaxTrials
  /\ trials' = [trials EXCEPT ![l] = MemAdd(trials[l], trial)]
  /\ result' = [result EXCEPT ![l] =
       Result("add", <<>>, FALSE, 0, <<>>, PlainNote(""), rng[l], trials[l])]
  /\ UNCHANGED <<rng, run>>

\* lab.memory.best()
DoBest(l) ==
  /\ UNCHANGED <<module, multivars>>
  /\ Idle(l)
  /\ result' = [result EXCEPT ![l] =
       Result("best", <<>>, FALSE, 0, Best(trials[l]), PlainNote(""), rng[l], trials[l])]
  /\ UNCHANGED <<rng, trials, run>>

\* lab.memory.last()
DoLast(l) ==
  /\ UNCHANGED <<module, multivars>>
  /\ Idle(l)
  /\ result' = [result EXCEPT ![l] =
       Result("last", <<>>, FALSE, 0, Last(trials[l]), PlainNote(""), rng[l], trials[l])]
  /\ UNCHANGED <<rng, trials, run>>

\* lab.memory.diff_last_two()
DoDiffLastTwo(l) ==
  /\ UNCHANGED <<module, multivars>>
  /\ Idle(l)
  /\ result' = [result EXCEPT ![l] =
       Result("diff_last_two", <<>>, FALSE, 0, <<>>, DiffLastTwo(trials[l]), rng[l], trials[l])]
  /\ UNCHANGED <<rng, trials, run>>

\* brute_force_grid_search(lab, shots, p_flip, grid_points)
DoGridSearch(l, shots, p_flip, grid_points) ==
  /\ UNCHANGED <<module, multivars>>
  /\ Idle(l)
  /\ Room(l, grid_points * MeasureDraws(shots))
  /\ Len(trials[l]) + grid_points <= MaxTrials
  /\ \E r \in {BruteForceGridSearch(rng[l], trials[l], shots, p_flip, grid_points)} :
        /\ rng' = [rng EXCEPT ![l] = r.rng]
        /\ trials' = [trials EXCEPT ![l] = r.trials]
        /\ result' = [result EXCEPT ![l] =
             Result("brute_force_grid_search", <<>>, r.raised, 0, r.best,
                    PlainNote(""), rng[l], trials[l])]
  /\ UNCHANGED run

(* ------------------------- spsa_optimize, stepwise -------------------- *)
SpsaDraws(steps, shots) == 1 + steps * (1 + 3 * MeasureDraws(shots))

SpsaArgs(f) == <<f.shots, f.p_flip, f.steps, f.a, f.c>>

\* the call ends with ValueError raised out of the frame
SpsaRaise(l) ==
  /\ run' = [run EXCEPT ![l] = IdleRun]
  /\ result' = [result EXCEPT ![l] =
       Result("spsa_optimize", SpsaArgs(run[l]), TRUE, 0, <<>>, PlainNote(""),
              run[l].rng0, run[l].trials0)]

\* entry: the argument checks, then the initial theta
SpsaCall(l, shots, p_flip, steps, a, c) ==
  /\ UNCHANGED <<module, multivars>>
  /\ Idle(l)
  /\ rng[l].pos + SpsaDraws(steps, shots) <= MaxSpsaDraws
  /\ Len(trials[l]) + steps <= MaxTrials
  /\ IF SpsaArgsRaise(steps, a, c)
     THEN /\ result' = [result EXCEPT ![l] =
               Result("spsa_optimize", <<>>, TRUE, 0,
                      <<>>, PlainNote(""), rng[l], trials[l])]
          /\ UNCHANGED <<rng, trials, run>>
     ELSE LET g1 == RngNext(rng[l])
          IN /\ rng' = [rng EXCEPT ![l] = g1]
             /\ run' = [run EXCEPT ![l] =
                  [pc |-> "delta", k |-> 1, theta |-> InitialTheta(g1), delta |-> 0,
                   e_plus |-> 0, e_minus |-> 0,
                   shots |-> shots, p_flip |-> p_flip, steps |-> steps,
                   a |-> a, c |-> c, rng0 |-> rng[l], trials0 |-> trials[l]]]
             /\ result' = [result EXCEPT ![l] = NoResult]
             /\ UNCHANGED trials

\* the perturbation direction of iteration k
SpsaDelta(l) ==
  /\ UNCHANGED <<module, multivars>>
  /\ run[l].pc = "delta"
  /\ LET g1 == RngNext(rng[l])
     IN /\ rng' = [rng EXCEPT ![l] = g1]
        /\ run' = [run EXCEPT ![l].delta = DeltaOf(g1), ![l].pc = "plus"]
  /\ UNCHANGED <<trials, result>>

\* e_plus = measure_expectation_z(wrap_angle(theta + ck * delta), shots, p_flip)
SpsaPlus(l) ==
  /\ UNCHANGED <<module, multivars>>
  /\ run[l].pc = "plus"
  /\ LET f == run[l]
         ck == GainC(f.c, f.k)
         m == MeasureExpectationZ(rng[l], WrapAngle(f.theta + ck * f.delta),
                                  f.shots, f.p_flip)
     IN IF m.raised
        THEN SpsaRaise(l) /\ UNCHANGED <<rng, trials>>
        ELSE /\ rng' = [rng EXCEPT ![l] = m.rng]
             /\ run' = [run EXCEPT ![l].e_plus = m.energy, ![l].pc = "minus"]
             /\ UNCHANGED <<trials, result>>

\* e_minus = measure_expectation_z(wrap_angle(theta - ck * delta), shots, p_flip)
SpsaMinus(l) ==
  /\ UNCHANGED <<module, multivars>>
  /\ run[l].pc = "minus"
  /\ LET f == run[l]
         ck == GainC(f.c, f.k)
         m == MeasureExpectationZ(rng[l], WrapAngle(f.theta - ck * f.delta),
                                  f.shots, f.p_flip)
     IN IF m.raised
        THEN SpsaRaise(l) /\ UNCHANGED <<rng, trials>>
        ELSE /\ rng' = [rng EXCEPT ![l] = m.rng]
             /\ run' = [run EXCEPT ![l].e_minus = m.energy, ![l].pc = "log"]
             /\ UNCHANGED <<trials, result>>

\* the update of theta and the logged run_experiment of iteration k
SpsaLog(l) ==
  /\ UNCHANGED <<module, multivars>>
  /\ run[l].pc = "log"
  /\ LET f == run[l]
         ak == GainA(f.a, f.k)
         ck == GainC(f.c, f.k)
         theta == SpsaUpdate(f.theta, ak, ck, f.delta, f.e_plus, f.e_minus)
         e == RunExperiment(rng[l], trials[l], f.k, theta, f.shots, f.p_flip,
                            SpsaNote(trials[l], f.k))
     IN IF e.raised
        THEN SpsaRaise(l) /\ UNCHANGED <<rng, trials>>
        ELSE /\ rng' = [rng EXCEPT ![l] = e.rng]
             /\ trials' = [trials EXCEPT ![l] = e.trials]
             /\ run' = [run EXCEPT ![l].theta = theta,
                                   ![l].k = f.k + 1,
                                   ![l].pc = LoopNext(f.k, f.steps)]
             /\ UNCHANGED result

\* best = lab.memory.best(); return best
SpsaReturn(l) ==
  /\ UNCHANGED <<module, multivars>>
  /\ run[l].pc = "return"
  /\ result' = [result EXCEPT ![l] =
       Result("spsa_optimize", SpsaArgs(run[l]), FALSE, 0, Best(trials[l]),
              PlainNote(""), run[l].rng0, run[l].trials0)]
  /\ run' = [run EXCEPT ![l] = IdleRun]
  /\ UNCHANGED <<rng, trials>>

(* ---------------------- spsa_optimize_multi, stepwise ----------------- *)
IdleMulti == [pc |-> "idle", k |-> 0, rng |-> RngSeed(0), thetas |-> <<>>,
              delta |-> <<>>, e_plus |-> 0, e_minus |-> 0, memory |-> <<>>,
              n_qubits |-> 0, steps |-> 0, shots |-> 0, p_flip |-> 0,
              a |-> 0, c |-> 0, mrng0 |-> RngSeed(0)]

\* how a call ended: error is "", "ValueError" or "ZeroDivisionError"; memory is
\* the MultiMemory returned by spsa_optimize_multi, best what best() returned
\* on it, energy what measure_energy returned; n_qubits ... c the arguments;
\* mrng0 the backend's generator when the call was entered
MultiResult(f, error, memory) ==
  [op |-> "spsa_optimize_multi", error |-> error, memory |-> memory,
   best |-> <<>>, energy |-> 0,
   n_qubits |-> f.n_qubits, steps |-> f.steps, shots |-> f.shots,
   p_flip |-> f.p_flip, a |-> f.a, c |-> f.c, mrng0 |-> f.mrng0]

NoMultiResult == [MultiResult(IdleMulti, "", <<>>) EXCEPT !.op = "none"]

MultiIdle == module = "multi_qubit_lab" /\ mrun.pc = "idle"

\* draws one measure_energy call takes from the backend
MultiMeasureDraws(n, shots) == shots * (1 + n)

MultiRaise(error) ==
  /\ mresult' = MultiResult(mrun, error, <<>>)
  /\ mrun' = IdleMulti

\* entry: rng = random.Random(seed), the initial thetas, memory = MultiMemory()
MultiCall(n_qubits, steps, shots, p_flip, a, c, seed) ==
  /\ MultiIdle
  /\ mrng.pos + steps * 3 * MultiMeasureDraws(n_qubits, shots) <= MaxMultiDraws
  /\ LET d == DrawN(RngSeed(seed), n_qubits, <<>>)
     IN mrun' = [pc |-> LoopNext(0, steps),
                 k |-> 1, rng |-> d.rng,
                 thetas |-> [i \in 1..n_qubits |-> (d.vals[i] * TwoPi) \div RngMod],
                 delta |-> <<>>, e_plus |-> 0, e_minus |-> 0, memory |-> <<>>,
                 n_qubits |-> n_qubits, steps |-> steps, shots |-> shots,
                 p_flip |-> p_flip, a |-> a, c |-> c, mrng0 |-> mrng]
  /\ mresult' = NoMultiResult
  /\ UNCHANGED <<module, labvars, mrng>>

\* delta = tuple(1 if rng.random() < 0.5 else -1 for _ in range(n_qubits))
MultiDelta ==
  /\ mrun.pc = "delta"
  /\ LET d == DrawN(mrun.rng, mrun.n_qubits, <<>>)
     IN mrun' = [mrun EXCEPT !.rng = d.rng,
                   !.delta = [i \in 1..mrun.n_qubits |->
                                IF d.vals[i] * 2 < RngMod THEN 1 ELSE -1],
                   !.pc = "plus"]
  /\ UNCHANGED <<module, labvars, mrng, mresult>>

\* theta_plus / theta_minus (sign = 1 / -1)
MultiShifted(f, sign) ==
  WrapThetas([i \in 1..f.n_qubits |-> f.thetas[i] + sign * GainC(f.c, f.k) * f.delta[i]])

\* e_plus = backend.measure_energy(theta_plus, shots, p_flip)
MultiPlus ==
  /\ mrun.pc = "plus"
  /\ \E thetas \in {MultiShifted(mrun, 1)} :
     \E m \in {MeasureEnergy(mrng, thetas, mrun.shots, mrun.p_flip)} :
        IF m.raised
        THEN MultiRaise("ValueError") /\ UNCHANGED mrng
        ELSE /\ mrng' = m.rng
             /\ mrun' = [mrun EXCEPT !.e_plus = m.energy, !.pc = "minus"]
             /\ UNCHANGED mresult
  /\ UNCHANGED <<module, labvars>>

\* e_minus = backend.measure_energy(theta_minus, shots, p_flip)
MultiMinus ==
  /\ mrun.pc = "minus"
  /\ \E thetas \in {MultiShifted(mrun, -1)} :
     \E m \in {MeasureEnergy(mrng, thetas, mrun.shots, mrun.p_flip)} :
        IF m.raised
        THEN MultiRaise("ValueError") /\ UNCHANGED mrng
        ELSE /\ mrng' = m.rng
             /\ mrun' = [mrun EXCEPT !.e_minus = m.energy, !.pc = "log"]
             /\ UNCHANGED mresult
  /\ UNCHANGED <<module, labvars>>

\* thetas = _wrap_thetas(t - ak * g), g = (e_plus - e_minus) / (2.0 * ck * d)
MultiUpdate(f) ==
  WrapThetas([i \in 1..f.n_qubits |->
     f.thetas[i] - SpsaStep(GainA(f.a, f.k), GainC(f.c, f.k), f.delta[i],
                            f.e_plus, f.e_minus)])

\* grad, the update, the third measurement and memory.add of iteration k
MultiLog ==
  /\ mrun.pc = "log"
  /\ IF GainC(mrun.c, mrun.k) = 0
     THEN MultiRaise("ZeroDivisionError") /\ UNCHANGED mrng
     ELSE \E thetas \in {MultiUpdate(mrun)} :
          \E m \in {MeasureEnergy(mrng, thetas, mrun.shots, mrun.p_flip)} :
             IF m.raised
             THEN MultiRaise("ValueError") /\ UNCHANGED mrng
             ELSE /\ mrng' = m.rng
                  /\ mrun' = [mrun EXCEPT
                       !.thetas = thetas,
                       !.memory = Append(mrun.memory,
                          MultiTrial(mrun.k, thetas, mrun.shots, mrun.p_flip, m.energy)),
                       !.k = mrun.k + 1,
                       !.pc = LoopNext(mrun.k, mrun.steps)]
                  /\ UNCHANGED mresult
  /\ UNCHANGED <<module, labvars>>

\* return memory
MultiReturn ==
  /\ mrun.pc = "return"
  /\ mresult' = MultiResult(mrun, "", mrun.memory)
  /\ mrun' = IdleMulti
  /\ UNCHANGED <<module, labvars, mrng>>

\* history.add(trial) on the memory the driver returned
DoMultiAdd(trial) ==
  /\ MultiIdle
  /\ mresult.op \in {"spsa_optimize_multi", "add", "best"}
  /\ mresult.error = ""
  /\ Len(mresult.memory) < MaxTrials
  /\ mresult' = [mresult EXCEPT !.op = "add", !.best = <<>>,
                                 !.memory = Append(mresult.memory, trial)]
  /\ UNCHANGED <<module, labvars, mrng, mrun>>

\* best = history.best() on the memory the driver returned; main raises
\* RuntimeError("No trials recorded.") when best is None
DoMultiBest ==
  /\ MultiIdle
  /\ mresult.op \in {"spsa_optimize_multi", "add", "best"}
  /\ mresult.error = ""
  /\ mresult' = [mresult EXCEPT
        !.op = "best",
        !.best = MultiBest(mresult.memory),
        !.error = IF MultiBest(mresult.memory) = <<>> THEN "RuntimeError" ELSE ""]
  /\ UNCHANGED <<module, labvars, mrng, mrun>>

\* backend.measure_energy(thetas, shots, p_flip)
DoMeasureEnergy(thetas, shots, p_flip) ==
  /\ MultiIdle
  /\ mrng.pos + MultiMeasureDraws(Len(thetas), shots) <= MaxMultiDraws
  /\ LET m == MeasureEnergy(mrng, thetas, shots, p_flip)
     IN /\ mrng' = m.rng
        /\ mresult' = [NoMultiResult EXCEPT
              !.op = "measure_energy",
              !.error = IF m.raised THEN "ValueError" ELSE "",
              !.energy = m.energy, !.mrng0 = mrng]
  /\ UNCHANGED <<module, labvars, mrun>>

(* --------------------------- specifications --------------------------- *)
Init ==
  /\ module \in {"autonomous_quantum_lab", "multi_qubit_lab"}
  /\ \E s \in Seeds : rng = [l \in Labs |-> RngSeed(s)] /\ mrng = RngSeed(s)
  /\ trials = [l \in Labs |-> <<>>]
  /\ run = [l \in Labs |-> IdleRun]
  /\ result = [l \in Labs |-> NoResult]
  /\ mrun = IdleMulti
  /\ mresult = NoMultiResult

\* one lab used through every operation, and the multi-qubit module used
\* through its driver, its backend and the memory the driver returns
Next ==
  \/ \E th \in {3142, Inf}, ns \in NoiseInputs :
       DoMeasure(1, th, ns[1], ns[2])
  \/ \E st \in StepInputs, th \in ExpThetaInputs, sh \in ExpShotsInputs, pf \in ExpPFlipInputs :
       DoRunExperiment(1, st, th, sh, pf)
  \/ \E t \in AddInputs : DoAdd(1, t)
  \/ DoBest(1)
  \/ DoLast(1)
  \/ DoDiffLastTwo(1)
  \/ \E ns \in DriverNoise, gp \in GridInputs :
       DoGridSearch(1, ns[1], ns[2], gp)
  \/ \E d \in DriverCalls :
       SpsaCall(1, d[1], d[2], d[3], d[4], d[5])
  \/ SpsaDelta(1)
  \/ SpsaPlus(1)
  \/ SpsaMinus(1)
  \/ SpsaLog(1)
  \/ SpsaReturn(1)
  \/ \E n \in QubitInputs, d \in DriverCalls, sd \in Seeds :
       MultiCall(n, d[3], d[1], d[2], d[4], d[5], sd)
  \/ MultiDelta
  \/ MultiPlus
  \/ MultiMinus
  \/ MultiLog
  \/ MultiReturn
  \/ \E t \in MultiAddInputs : DoMultiAdd(t)
  \/ DoMultiBest
  \/ \E th \in MultiThetaInputs, ns \in NoiseInputs :
       DoMeasureEnergy(th, ns[1], ns[2])

Spec == Init /\ [][Next]_vars

\* The code is synchronous: a driver that was entered runs on until it
\* returns or raises.
SpsaRuns(l) == SpsaDelta(l) \/ SpsaPlus(l) \/ SpsaMinus(l) \/ SpsaLog(l) \/ SpsaReturn(l)
MultiRuns == MultiDelta \/ MultiPlus \/ MultiMinus \/ MultiLog \/ MultiReturn

\* the two SPSA drivers, run to completion, and history.add and
\* history.best on the memory the multi-qubit driver returned
DriverNext ==
  \/ \E d \in DriverCalls :
       SpsaCall(1, d[1], d[2], d[3], d[4], d[5])
  \/ SpsaDelta(1)
  \/ SpsaPlus(1)
  \/ SpsaMinus(1)
  \/ SpsaLog(1)
  \/ SpsaReturn(1)
  \/ \E n \in QubitInputs, d \in DriverCalls, sd \in Seeds :
       MultiCall(n, d[3], d[1], d[2], d[4], d[5], sd)
  \/ MultiDelta
  \/ MultiPlus
  \/ MultiMinus
  \/ MultiLog
  \/ MultiReturn
  \/ \E t \in MultiAddInputs : DoMultiAdd(t)
  \/ DoMultiBest

DriverSpec ==
  Init /\ [][DriverNext]_vars /\ WF_vars(SpsaRuns(1)) /\ WF_vars(MultiRuns)

\* the two measurement functions alone, called again and again on one backend
MeasureNext ==
  \/ \E th \in ThetaInputs, sh \in ShotsInputs, pf \in PFlipInputs :
       DoMeasure(1, th, sh, pf)
  \/ \E th \in MultiThetaInputs, sh \in ShotsInputs, pf \in PFlipInputs :
       DoMeasureEnergy(th, sh, pf)

MeasureSpec == Init /\ [][MeasureNext]_vars

(* Two labs, each built on its own backend, each running one spsa_optimize  *)
(* from its construction; their steps interleave freely.                    *)
PairInit ==
  /\ module = "autonomous_quantum_lab"
  /\ rng \in [Labs -> {RngSeed(s) : s \in Seeds}]
  /\ trials = [l \in Labs |-> <<>>]
  /\ run = [l \in Labs |-> IdleRun]
  /\ result = [l \in Labs |-> NoResult]
  /\ mrun = IdleMulti
  /\ mresult = NoMultiResult
  /\ mrng = RngSeed(0)

Fresh(l) == rng[l].pos = 0 /\ trials[l] = <<>> /\ result[l].op = "none"

PairNext ==
  \E l \in Labs :
    \/ \E d \in DriverCalls :
         Fresh(l) /\ SpsaCall(l, d[1], d[2], d[3], d[4], d[5])
    \/ SpsaDelta(l)
    \/ SpsaPlus(l)
    \/ SpsaMinus(l)
    \/ SpsaLog(l)
    \/ SpsaReturn(l)

PairSpec == PairInit /\ [][PairNext]_vars

(* run_experiment called with an angle beyond 2*pi, a tiny negative angle    *)
(* and an infinite angle, and memory.add called between.                    *)
RunThetaInputs == {7330, NegTiny, Inf}

RunNext ==
  \/ \E st \in StepInputs, th \in RunThetaInputs, sh \in ExpShotsInputs,
        pf \in ExpPFlipInputs : DoRunExperiment(1, st, th, sh, pf)
  \/ \E t \in AddInputs : DoAdd(1, t)

RunSpec == Init /\ [][RunNext]_vars

(* spsa_optimize alone, run for three iterations on a fresh lab.            *)
NoteSteps == 3
NoteNoise == {<<1, 0>>, <<1, 50>>}
NoteGains == {<<600, 200>>, <<600, 1047>>, <<300, 200>>}

NoteNext ==
  \/ \E ns \in NoteNoise, ac \in NoteGains :
       SpsaCall(1, ns[1], ns[2], NoteSteps, ac[1], ac[2])
  \/ SpsaDelta(1)
  \/ SpsaPlus(1)
  \/ SpsaMinus(1)
  \/ SpsaLog(1)
  \/ SpsaReturn(1)

NoteSpec == Init /\ [][NoteNext]_vars /\ WF_vars(SpsaRuns(1))

(* Both backends called directly from a script that imports the two        *)
(* modules: two single-qubit backends and one multi-qubit backend, all      *)
(* built with the same seed; each result records the arguments of its call. *)
SampleThetas == {1047, TieTheta}
SampleMultiThetas == {<<th>> : th \in SampleThetas} \cup {<<1047, 3142>>}
SampleNoise == {0, FlipDen \div 2}
SampleFlips == {0, FlipDen}

\* the second seed makes the first draw 9/16, the value of 0.75 ** 2
SampleSeeds == {0, 22}

SampleInit ==
  /\ module = "both"
  /\ \E s \in SampleSeeds : rng = [l \in Labs |-> RngSeed(s)] /\ mrng = RngSeed(s)
  /\ trials = [l \in Labs |-> <<>>]
  /\ run = [l \in Labs |-> IdleRun]
  /\ result = [l \in Labs |-> NoResult]
  /\ mrun = IdleMulti
  /\ mresult = NoMultiResult

\* backend.measure_expectation_z(theta, shots, p_flip) on the backend of lab l
CallMeasure(l, theta, shots, p_flip) ==
  /\ rng[l].pos + MeasureDraws(shots) <= 2 * MaxShots
  /\ LET m == MeasureExpectationZ(rng[l], theta, shots, p_flip)
     IN /\ rng' = [rng EXCEPT ![l] = m.rng]
        /\ result' = [result EXCEPT ![l] =
             Result("measure_expectation_z", <<theta, shots, p_flip>>, m.raised,
                    m.energy, <<>>, PlainNote(""), rng[l], trials[l])]
  /\ UNCHANGED <<module, trials, run, multivars>>

\* backend.measure_energy(thetas, shots, p_flip) on the multi-qubit backend
CallMeasureEnergy(thetas, shots, p_flip) ==
  /\ mrng.pos + MultiMeasureDraws(Len(thetas), shots) <= 2 * MaxShots
  /\ LET m == MeasureEnergy(mrng, thetas, shots, p_flip)
     IN /\ mrng' = m.rng
        /\ mresult' = [op |-> "measure_energy",
                       error |-> IF m.raised THEN "ValueError" ELSE "",
                       energy |-> m.energy, thetas |-> thetas, shots |-> shots,
                       p_flip |-> p_flip, mrng0 |-> mrng]
  /\ UNCHANGED <<module, labvars, mrun>>

SampleNext ==
  \/ \E th \in SampleThetas, sh \in ShotsInputs, pf \in SampleNoise :
       CallMeasure(1, th, sh, pf)
  \/ \E th \in SampleThetas, sh \in 1..MaxShots : CallMeasure(2, th, sh, FlipDen)
  \/ \E th \in SampleMultiThetas, sh \in ExpShotsInputs, pf \in SampleFlips :
       CallMeasureEnergy(th, sh, pf)

SampleSpec == SampleInit /\ [][SampleNext]_vars

(* _statevector_from_thetas called on angle vectors of one to four qubits:  *)
(* the vector is an input of the call, and the call is computed to 1e-12.   *)
\* angles in every quarter of the period 4*pi of theta / 2, below 0 and above
\* 2*pi among them
StateAngles == {-7000, -1571, 0, 1, 1047, 2500, 3142, 7330, 10472}
StateQubits == 1..4
StateThetaInputs == UNION {[1..n -> StateAngles] : n \in StateQubits}

StateInit ==
  /\ module = "multi_qubit_lab"
  /\ rng = [l \in Labs |-> RngSeed(0)]
  /\ mrng = RngSeed(0)
  /\ trials = [l \in Labs |-> <<>>]
  /\ run = [l \in Labs |-> IdleRun]
  /\ result = [l \in Labs |-> NoResult]
  /\ mrun = IdleMulti
  /\ mresult = NoMultiResult

StateCallInit ==
  /\ module = "multi_qubit_lab"
  /\ rng = [l \in Labs |-> RngSeed(0)]
  /\ mrng = RngSeed(0)
  /\ trials = [l \in Labs |-> <<>>]
  /\ run = [l \in Labs |-> IdleRun]
  /\ result = [l \in Labs |-> NoResult]
  /\ mrun = IdleMulti
  /\ \E thetas \in StateThetaInputs : mresult = [op |-> "call", thetas |-> thetas]

\* state = _statevector_from_thetas(thetas), with the vector as it stood
\* after the rotation layer and after each CNOT
CallStatevector(thetas) ==
  /\ mresult' = [op |-> "_statevector_from_thetas", thetas |-> thetas,
                 stages |-> StatevectorStages(thetas),
                 state |-> StatevectorFromThetas(thetas)]
  /\ UNCHANGED <<module, labvars, mrng, mrun>>

\* the same call, carried to 1e-12
CallStatevectorFine ==
  /\ mresult.op = "call"
  /\ mresult' = [op |-> "_statevector_from_thetas", thetas |-> mresult.thetas,
                 stages |-> StatevectorStagesFine(mresult.thetas),
                 state |-> StatevectorFine(mresult.thetas)]
  /\ UNCHANGED <<module, labvars, mrng, mrun>>

StateNext == CallStatevectorFine

StateSpec == StateCallInit /\ [][StateNext]_vars

(* The module-level helper functions of multi_qubit_lab.py, called directly. *)
EnergyQubits == 1..4
EnergyBits == 0..(2 ^ 4 - 1)

\* _energy_for_bitstring(bits, n)
CallEnergyForBitstring(bits, n) ==
  /\ mresult' = [op |-> "_energy_for_bitstring", bits |-> bits, n |-> n,
                 energy2 |-> EnergyForBitstring2(bits, n)]
  /\ UNCHANGED <<module, labvars, mrng, mrun>>

\* state vectors of 2^n amplitudes that are pairwise different, and gates:
\* two rotations and a matrix with four unrelated entries
PureQubits == 1..3
PureStates(n) == {[i \in 1..(2 ^ n) |-> i * 10 ^ 7],
                  [i \in 1..(2 ^ n) |-> i * i * 10 ^ 6 + (i % 2) * 12345]}
PureGates == {Ry(1047), Ry(3142), <<10000000, 20000000, 35000000, 50000000>>}

\* _apply_single_qubit_gate(state, gate, qubit, n)
CallApplyGate(state, gate, qubit, n) ==
  /\ mresult' = [op |-> "_apply_single_qubit_gate", before |-> state, gate |-> gate,
                 qubit |-> qubit, n |-> n,
                 after |-> ApplySingleQubitGate(state, gate, qubit, n)]
  /\ UNCHANGED <<module, labvars, mrng, mrun>>

\* _apply_cnot(state, control, target, n), and the same call once more
CallApplyCnot(state, control, target, n) ==
  /\ mresult' = [op |-> "_apply_cnot", before |-> state, control |-> control,
                 target |-> target, n |-> n,
                 after |-> ApplyCnot(state, control, target, n),
                 again |-> ApplyCnot(ApplyCnot(state, control, target, n),
                                     control, target, n)]
  /\ UNCHANGED <<module, labvars, mrng, mrun>>

\* _sample_bitstring(rng, probs) on a generator in any state; probs over the
\* denominator 4, each list summing to 1
PureGenerators == {[state |-> x, pos |-> 0] : x \in 0..(RngStates - 1)}
PureProbs == {<<0, 4>>, <<4, 0>>, <<1, 3>>, <<2, 0, 1, 1>>, <<0, 0, 0, 4>>}

CallSampleBitstring(g, probs) ==
  /\ mresult' = [op |-> "_sample_bitstring", probs |-> probs,
                 r |-> RngVal(RngNext(g)),
                 bits |-> SampleBitstring(g, probs, 4).bits]
  /\ UNCHANGED <<module, labvars, mrng, mrun>>

PureThetaInputs == UNION {[1..n -> {1047, 5236}] : n \in PureQubits}

PureNext ==
  \/ \E n \in EnergyQubits, bits \in EnergyBits : CallEnergyForBitstring(bits, n)
  \/ \E n \in PureQubits : \E c \in 0..(n - 1), t \in 0..(n - 1), st \in PureStates(n) :
       CallApplyCnot(st, c, t, n)
  \/ \E thetas \in PureThetaInputs : CallStatevector(thetas)
  \/ \E g \in PureGenerators, probs \in PureProbs : CallSampleBitstring(g, probs)
  \/ \E n \in PureQubits : \E q \in 0..(n - 1), st \in PureStates(n), g \in PureGates :
       CallApplyGate(st, g, q, n)

PureSpec == StateInit /\ [][PureNext]_vars

(* ============================== claims ================================ *)

Returned(l, op) == run[l].pc = "idle" /\ result[l].op = op /\ ~result[l].raised

\* C1: two spsa_optimize runs on independently constructed labs with the same
\* seed and the same arguments leave identical ledgers (same theta and same
\* measured_energy at every step) and return the same best Trial.
C1_Determinism ==
  ( /\ Returned(1, "spsa_optimize")
    /\ Returned(2, "spsa_optimize")
    /\ result[1].rng0 = result[2].rng0
    /\ result[1].trials0 = result[2].trials0
    /\ result[1].args = result[2].args )
  => /\ trials[1] = trials[2]
     /\ result[1].trial = result[2].trial
     /\ rng[1] = rng[2]

C1_Witness ==
  /\ Returned(1, "spsa_optimize")
  /\ Returned(2, "spsa_optimize")
  /\ result[1].rng0 = result[2].rng0
  /\ result[1].args = result[2].args
  /\ Len(trials[1]) = 2
  /\ trials[1][1].theta # trials[1][2].theta
  /\ trials[1][1].measured_energy # trials[1][2].measured_energy

\* C2: on return from spsa_optimize the returned Trial is the ledger's best():
\* a Trial of the ledger whose measured_energy is <= that of every Trial in
\* the ledger at that moment (it need not be the last one appended).
C2_ReturnsBest ==
  Returned(1, "spsa_optimize") =>
    /\ Len(result[1].trial) = 1
    /\ \E i \in DOMAIN trials[1] : trials[1][i] = result[1].trial[1]
    /\ \A j \in DOMAIN trials[1] :
         result[1].trial[1].measured_energy <= trials[1][j].measured_energy

\* the returned best is strictly better than the last Trial appended
C2_Witness ==
  /\ Returned(1, "spsa_optimize")
  /\ Len(result[1].trials0) = 0
  /\ result[1].trial[1].measured_energy < trials[1][Len(trials[1])].measured_energy

ValidArgs(steps, shots, p_flip, a, c) ==
  steps >= 1 /\ a > 0 /\ c > 0 /\ shots > 0 /\ 0 <= p_flip /\ p_flip <= FlipDen

\* the Trials ts[from + 1 .. Len(ts)] carry the step fields 1, 2, ... in order
StepsCount(ts, from) == \A i \in 1..(Len(ts) - from) : ts[from + i].step = i

C3_Safety ==
  /\ \* spsa_optimize in progress: iteration k has appended k - 1 Trials
     LET f == run[1] IN
     (f.pc # "idle" /\ ValidArgs(f.steps, f.shots, f.p_flip, f.a, f.c)) =>
        /\ Len(trials[1]) = Len(f.trials0) + f.k - 1
        /\ StepsCount(trials[1], Len(f.trials0))
        /\ f.k <= f.steps + 1
        /\ (f.pc = "return") = (f.k = f.steps + 1)
  /\ \* spsa_optimize left its loop
     LET r == result[1] IN
     (run[1].pc = "idle" /\ r.op = "spsa_optimize" /\ r.args # <<>>
        /\ ValidArgs(r.args[3], r.args[1], r.args[2], r.args[4], r.args[5])) =>
        /\ ~r.raised
        /\ Len(trials[1]) = Len(r.trials0) + r.args[3]
        /\ StepsCount(trials[1], Len(r.trials0))
  /\ \* spsa_optimize_multi in progress
     LET f == mrun IN
     (f.pc # "idle" /\ ValidArgs(f.steps, f.shots, f.p_flip, f.a, f.c)) =>
        /\ Len(f.memory) = f.k - 1
        /\ StepsCount(f.memory, 0)
        /\ f.k <= f.steps + 1
        /\ (f.pc = "return") = (f.k = f.steps + 1)
  /\ \* spsa_optimize_multi left its loop
     LET r == mresult IN
     (mrun.pc = "idle" /\ r.op = "spsa_optimize_multi"
        /\ ValidArgs(r.steps, r.shots, r.p_flip, r.a, r.c)) =>
        /\ r.error = ""
        /\ Len(r.memory) = r.steps
        /\ StepsCount(r.memory, 0)

\* C3: an SPSA run started with steps >= 1 and valid a, c, shots and p_flip
\* terminates, after exactly `steps` iterations and never earlier: it appends
\* exactly `steps` Trials whose step fields are 1, 2, ..., steps in that order.
C3_ExactlySteps ==
  /\ []C3_Safety
  /\ (run[1].pc # "idle"
        /\ ValidArgs(run[1].steps, run[1].shots, run[1].p_flip, run[1].a, run[1].c))
       ~> Returned(1, "spsa_optimize")
  /\ (mrun.pc # "idle"
        /\ ValidArgs(mrun.steps, mrun.shots, mrun.p_flip, mrun.a, mrun.c))
       ~> (mrun.pc = "idle" /\ mresult.op = "spsa_optimize_multi" /\ mresult.error = "")

\* a two-step run has returned on a ledger that already held a Trial
C3_Witness ==
  /\ Returned(1, "spsa_optimize")
  /\ result[1].args[3] = 2
  /\ Len(result[1].trials0) = 1
  /\ Len(trials[1]) = 3
  /\ trials[1][2].theta # trials[1][3].theta

BadNoise(shots, p_flip) == shots <= 0 \/ p_flip < 0 \/ p_flip > FlipDen

\* C4 as stated: measure_expectation_z and measure_energy raise ValueError
\* whenever shots <= 0 or p_flip lies outside [0, 1], and never raise it when
\* shots > 0 and 0 <= p_flip <= 1.
C4_RaisesIffBadNoise ==
  [][ /\ \A th \in ThetaInputs, sh \in ShotsInputs, pf \in PFlipInputs :
           DoMeasure(1, th, sh, pf) => (result'[1].raised <=> BadNoise(sh, pf))
      /\ \A th \in MultiThetaInputs, sh \in ShotsInputs, pf \in PFlipInputs :
           DoMeasureEnergy(th, sh, pf) =>
             ((mresult'.error = "ValueError") <=> BadNoise(sh, pf)) ]_vars

\* C4 (amended): both measurements raise ValueError whenever shots <= 0 or
\* p_flip lies outside [0, 1], and never raise it when shots > 0,
\* 0 <= p_flip <= 1 (both bounds inclusive) and every angle is finite.
C4_RaisesIffBadNoiseFinite ==
  [][ /\ \A th \in ThetaInputs, sh \in ShotsInputs, pf \in PFlipInputs :
           DoMeasure(1, th, sh, pf) =>
             /\ BadNoise(sh, pf) => result'[1].raised
             /\ (~BadNoise(sh, pf) /\ th # Inf) => ~result'[1].raised
      /\ \A th \in MultiThetaInputs, sh \in ShotsInputs, pf \in PFlipInputs :
           DoMeasureEnergy(th, sh, pf) =>
             /\ BadNoise(sh, pf) => mresult'.error = "ValueError"
             /\ (~BadNoise(sh, pf) /\ \A i \in DOMAIN th : th[i] # Inf)
                  => mresult'.error = "" ]_vars

\* a measurement was accepted and drew from the generator
C4_Witness ==
  /\ result[1].op = "measure_expectation_z"
  /\ ~result[1].raised
  /\ rng[1].pos = result[1].rng0.pos + 2 * MaxShots

\* C5: both SPSA drivers fail with an invalid-argument error when steps <= 0,
\* when a <= 0 or when c <= 0, and perform no iteration in that case: no
\* driver is ever inside its loop with such arguments, and a call made with
\* them ends in ValueError with nothing measured and nothing logged.
C5_BothDriversReject ==
  /\ run[1].pc # "idle" => (run[1].steps >= 1 /\ run[1].a > 0 /\ run[1].c > 0)
  /\ (run[1].pc = "idle" /\ result[1].op = "spsa_optimize" /\ result[1].args = <<>>)
       => (result[1].raised /\ rng[1] = result[1].rng0 /\ trials[1] = result[1].trials0)
  /\ mrun.pc # "idle" => (mrun.steps >= 1 /\ mrun.a > 0 /\ mrun.c > 0)
  /\ (mrun.pc = "idle" /\ mresult.op = "spsa_optimize_multi"
        /\ (mresult.steps <= 0 \/ mresult.a <= 0 \/ mresult.c <= 0))
       => (mresult.error = "ValueError" /\ mresult.memory = <<>> /\ mrng = mresult.mrng0)

\* C6: every call rejected with ValueError leaves the generator's position (its
\* whole state) and the ledger exactly as they were when the call was entered.
C6_RejectedLeavesState ==
  /\ (run[1].pc = "idle" /\ result[1].raised)
       => (rng[1] = result[1].rng0 /\ trials[1] = result[1].trials0)
  /\ (mrun.pc = "idle" /\ mresult.op = "measure_energy" /\ mresult.error = "ValueError")
       => mrng = mresult.mrng0

\* b is what best() must return on ts: nothing on the empty ledger, else the
\* first Trial of minimal measured_energy
FirstMinimal(ts, b) ==
  IF ts = <<>> THEN b = <<>>
  ELSE /\ Len(b) = 1
       /\ \E i \in DOMAIN ts :
            /\ b[1] = ts[i]
            /\ \A j \in DOMAIN ts : ts[i].measured_energy <= ts[j].measured_energy
            /\ \A j \in 1..(i - 1) : ts[j].measured_energy > ts[i].measured_energy

\* C7: best() returns None on the empty ledger and otherwise a Trial of minimal
\* measured_energy; among several minimal Trials it returns the one appended
\* first (DiachronicMemory and MultiMemory alike).
C7_BestFirstMinimal ==
  /\ (run[1].pc = "idle" /\ result[1].op = "best") => FirstMinimal(trials[1], result[1].trial)
  /\ (mrun.pc = "idle" /\ mresult.op = "best") => FirstMinimal(mresult.memory, mresult.best)

\* best() was asked on a ledger where a later, different Trial ties the minimum
C7_Witness ==
  /\ result[1].op = "best"
  /\ \E i, j \in DOMAIN trials[1] :
       /\ i < j
       /\ result[1].trial = <<trials[1][i]>>
       /\ trials[1][j].measured_energy = trials[1][i].measured_energy
       /\ trials[1][j] # trials[1][i]

\* C8: last() returns None on the empty ledger and otherwise the Trial added by
\* the most recent add: right after a run_experiment that returned, last() is
\* the Trial built from that call's arguments and its measured energy, right
\* after memory.add(t) it is t, and a last() query returns the final element
\* of the ledger.
C8_LastIsMostRecent ==
  [][ /\ \A st \in StepInputs, th \in ExpThetaInputs, sh \in ExpShotsInputs,
           pf \in ExpPFlipInputs :
           (result'[1].op = "run_experiment" /\ ~result'[1].raised
              /\ DoRunExperiment(1, st, th, sh, pf)) =>
             Last(trials'[1]) =
               <<Trial(st, WrapAngle(th), sh, pf, result'[1].energy, PlainNote("manual"))>>
      /\ (SpsaLog(1) /\ trials'[1] # trials[1]) =>
           /\ Len(Last(trials'[1])) = 1
           /\ Last(trials'[1])[1].step = run[1].k
           /\ Last(trials'[1])[1].theta = run'[1].theta
      /\ \A t \in AddInputs :
           (result'[1].op = "add" /\ DoAdd(1, t)) => Last(trials'[1]) = <<t>>
      /\ DoLast(1) =>
           result'[1].trial = IF trials[1] = <<>> THEN <<>>
                              ELSE <<trials[1][Len(trials[1])]>> ]_vars

\* last() was asked on a ledger whose newest Trial came from memory.add and
\* whose oldest came from run_experiment
C8_Witness ==
  /\ result[1].op = "last"
  /\ Len(trials[1]) >= 2
  /\ result[1].trial = <<trials[1][Len(trials[1])]>>
  /\ trials[1][1].note = PlainNote("manual")
  /\ trials[1][Len(trials[1])].note = PlainNote("added")

\* C9: the ledger is append-only: over every step of every operation
\* (memory.add among them) its length never decreases and the Trials it held keep their positions and all
\* their fields; best, last and diff_last_two leave it unchanged.
C9_AppendOnly ==
  [][ /\ Len(trials'[1]) >= Len(trials[1])
      /\ SubSeq(trials'[1], 1, Len(trials[1])) = trials[1]
      /\ (DoBest(1) \/ DoLast(1) \/ DoDiffLastTwo(1)) => trials' = trials ]_vars

\* the ledger was filled by a driver on top of an earlier Trial, then queried
C9_Witness ==
  /\ result[1].op = "diff_last_two"
  /\ Len(trials[1]) = MaxTrials
  /\ trials[1][1].note # trials[1][MaxTrials].note

\* C10 as stated: in every reachable state the step fields of a lab's ledger
\* are non-decreasing in insertion order, whatever calls were made.
C10_StepsNonDecreasing ==
  \A i \in 1..(Len(trials[1]) - 1) : trials[1][i].step <= trials[1][i + 1].step

\* number of Trials the ledger held when the current (or the last) call began
CallBase == IF run[1].pc # "idle" THEN Len(run[1].trials0) ELSE Len(result[1].trials0)

\* C10 (amended): the step fields of the Trials appended by one call
\* (run_experiment, brute_force_grid_search or spsa_optimize) are strictly
\* increasing in insertion order; across calls they may decrease.
C10_StepsIncreaseWithinCall ==
  \A i, j \in (CallBase + 1)..Len(trials[1]) :
     i < j => trials[1][i].step < trials[1][j].step

\* a grid search appended steps 0, 1 behind a Trial of step 1
C10_Witness ==
  /\ result[1].op = "brute_force_grid_search"
  /\ ~result[1].raised
  /\ Len(result[1].trials0) >= 1
  /\ Len(trials[1]) = Len(result[1].trials0) + 2
  /\ trials[1][Len(result[1].trials0)].step > trials[1][Len(result[1].trials0) + 1].step

(* --------------------------- diff_last_two ---------------------------- *)
\* C11: diff_last_two returns the insufficient-history sentinel exactly when
\* the ledger holds fewer than two trials; otherwise it reports the signed
\* differences, most recent minus second most recent, of theta and of
\* measured_energy (the latter to four decimal digits).
C11_DiffLastTwo ==
  \A l \in Labs :
    result[l].op = "diff_last_two" =>
      LET ts == result[l].trials0
          n == Len(ts)
          d == result[l].text
      IN /\ ~result[l].raised
         /\ (d.text = NoDiffText) <=> (n < 2)
         /\ n >= 2 =>
              /\ d.text = DiffText
              /\ d.dtheta = 10 * (ts[n].theta - ts[n - 1].theta)
              /\ 2 * Abs(d.dE * EnergyDen
                         - 10000 * (ts[n].measured_energy - ts[n - 1].measured_energy))
                   <= EnergyDen

\* a diff over three trials whose last two differ in theta and in energy
C11_Witness ==
  /\ result[1].op = "diff_last_two"
  /\ Len(result[1].trials0) = 3
  /\ result[1].text.dtheta # 0
  /\ result[1].text.dE # 0
  /\ result[1].trials0[1].theta # result[1].trials0[2].theta

(* --------------------------- run_experiment --------------------------- *)
\* C12: each run_experiment that returns appends exactly one Trial to the
\* ledger: the earlier Trials stay, and the new one carries the given step,
\* shots, p_flip and note, the angle wrapped into [0, 2*pi), and a
\* measured_energy equal to the value returned.
C12_OneTrialPerExperiment ==
  [][ \A st \in StepInputs, th \in ExpThetaInputs, sh \in ExpShotsInputs,
         pf \in ExpPFlipInputs :
         (result'[1].op = "run_experiment" /\ ~result'[1].raised
            /\ DoRunExperiment(1, st, th, sh, pf)) =>
           /\ Len(trials'[1]) = Len(trials[1]) + 1
           /\ SubSeq(trials'[1], 1, Len(trials[1])) = trials[1]
           /\ LET t == trials'[1][Len(trials'[1])]
              IN /\ t.step = st
                 /\ t.shots = sh
                 /\ t.p_flip = pf
                 /\ t.note = PlainNote("manual")
                 /\ t.theta \in 0..(TwoPi - 1)
                 /\ \E q \in 0..2 : th = t.theta + q * TwoPi
                 /\ t.measured_energy = result'[1].energy ]_vars

\* an experiment at an angle beyond 2*pi returned on a non-empty ledger
C12_Witness ==
  /\ run[1].pc = "idle"
  /\ result[1].op = "run_experiment"
  /\ ~result[1].raised
  /\ Len(result[1].trials0) >= 1
  /\ Len(trials[1]) = Len(result[1].trials0) + 1
  /\ trials[1][Len(trials[1])].theta = 1047
  /\ trials[1][Len(trials[1])].measured_energy = result[1].energy
  /\ result[1].energy # 0

\* the energy of a Trial is the mean of shots values of +1 or -1 taken with
\* arguments the backend accepts
CompletedMeasurement(t) ==
  /\ t.shots > 0
  /\ 0 <= t.p_flip /\ t.p_flip <= FlipDen
  /\ \E ones \in 0..t.shots :
       t.measured_energy * t.shots = (t.shots - 2 * ones) * EnergyDen

\* C13: when the evaluation inside run_experiment raises, no Trial is
\* appended (no raising call of run_experiment is a step that changes the
\* ledger); every Trial that run_experiment, the grid search or spsa_optimize
\* appends carries an energy that came from a completed measurement (a Trial
\* handed to memory.add is stored as its caller built it); and an SPSA
\* iteration in which an evaluation raises appends nothing for that iteration.
C13_FailedEvaluationLogsNothing ==
  [][ /\ (result'[1].op = "run_experiment" /\ result'[1].raised
             /\ trials'[1] # trials[1]) =>
            \A st \in StepInputs, th \in ExpThetaInputs, sh \in ExpShotsInputs,
               pf \in ExpPFlipInputs : ~DoRunExperiment(1, st, th, sh, pf)
      /\ (run[1].pc # "idle" \/ result'[1].op # "add") =>
           \A i \in (Len(trials[1]) + 1)..Len(trials'[1]) :
              CompletedMeasurement(trials'[1][i])
      /\ (run[1].pc \in {"plus", "minus", "log"} /\ run'[1].pc = "idle") =>
           /\ result'[1].op = "spsa_optimize" /\ result'[1].raised
           /\ trials'[1] = trials[1]
           /\ Len(trials'[1]) = Len(run[1].trials0) + run[1].k - 1 ]_vars

\* a run_experiment call raised on a ledger that held Trials, which it kept
C13_Witness ==
  /\ run[1].pc = "idle"
  /\ result[1].op = "run_experiment"
  /\ result[1].raised
  /\ Len(result[1].trials0) >= 1
  /\ trials[1] = result[1].trials0

(* ----------------------- brute_force_grid_search ---------------------- *)
\* the call was rejected before any experiment: nothing drawn, nothing logged
GridRejected ==
  /\ result'[1].raised
  /\ trials'[1] = trials[1]
  /\ rng'[1] = rng[1]

\* the call ran run_experiment gp times, with step i at angle 2*pi*i/gp for
\* i = 0..gp-1 in that order, and returned best() of the ledger
GridRan(shots, p_flip, gp) ==
  LET n == Len(trials[1]) IN
  /\ ~result'[1].raised
  /\ Len(trials'[1]) = n + gp
  /\ SubSeq(trials'[1], 1, n) = trials[1]
  /\ rng'[1].pos = rng[1].pos + gp * 2 * shots
  /\ \A i \in 0..(gp - 1) :
       /\ trials'[1][n + i + 1].step = i
       /\ trials'[1][n + i + 1].theta = (TwoPi * i) \div gp
       /\ trials'[1][n + i + 1].shots = shots
       /\ trials'[1][n + i + 1].p_flip = p_flip
  /\ Len(result'[1].trial) = 1
  /\ \E j \in 1..(n + gp) :
       /\ result'[1].trial[1] = trials'[1][j]
       /\ \A i \in 1..(n + gp) :
            /\ trials'[1][j].measured_energy <= trials'[1][i].measured_energy
            /\ i < j => trials'[1][j].measured_energy < trials'[1][i].measured_energy

\* C14 as stated: brute_force_grid_search raises without running any
\* experiment when grid_points <= 1, and for every call with grid_points > 1
\* runs exactly grid_points experiments, step i at angle 2*pi*i/grid_points in
\* increasing order, and returns best().
C14_GridSearch ==
  [][ \A ns \in DriverNoise, gp \in GridInputs :
        (result'[1].op = "brute_force_grid_search"
           /\ DoGridSearch(1, ns[1], ns[2], gp)) =>
          IF gp <= 1 THEN GridRejected ELSE GridRan(ns[1], ns[2], gp) ]_vars

\* C14, amended: brute_force_grid_search raises without running any experiment
\* when grid_points <= 1; for grid_points > 1, shots > 0 and p_flip in [0, 1]
\* it runs exactly grid_points experiments, step i at angle
\* 2*pi*i/grid_points for i = 0..grid_points-1 in increasing order, and then
\* returns best(); for grid_points > 1 and shots or p_flip out of range the
\* first experiment raises ValueError and nothing is logged.
C14_GridSearchValidNoise ==
  [][ result'[1].op = "brute_force_grid_search" =>
        \A ns \in DriverNoise, gp \in GridInputs :
          DoGridSearch(1, ns[1], ns[2], gp) =>
            IF gp <= 1 THEN GridRejected
            ELSE IF ns[1] > 0 /\ 0 <= ns[2] /\ ns[2] <= FlipDen
                 THEN GridRan(ns[1], ns[2], gp)
                 ELSE result'[1].raised /\ trials'[1] = trials[1] ]_vars

\* a two-point grid search on a ledger of one Trial returned the point at pi,
\* which is strictly better than the Trial logged before it
C14_Witness ==
  /\ run[1].pc = "idle"
  /\ result[1].op = "brute_force_grid_search"
  /\ ~result[1].raised
  /\ Len(result[1].trials0) = 1
  /\ Len(trials[1]) = 3
  /\ result[1].trial = <<trials[1][3]>>
  /\ trials[1][3].theta = TwoPi \div 2
  /\ trials[1][3].measured_energy < trials[1][1].measured_energy

(* ----------------------------- RNG streams ---------------------------- *)
\* draws spsa_optimize has taken when its frame stands at pc of iteration k:
\* one for the initial theta, then per iteration one for delta and 2 * shots
\* for each of the three measurements
DrawsSoFar(f) ==
  1 + (f.k - 1) * (1 + 6 * f.shots)
    + (CASE f.pc = "plus" -> 1
         [] f.pc = "minus" -> 1 + 2 * f.shots
         [] f.pc = "log" -> 1 + 4 * f.shots
         [] OTHER -> 0)

\* C15: within one SPSA run every random draw (initial parameters, Rademacher
\* perturbations, shot sampling, bit-flip draws) is taken from one and the same
\* RNG stream: in spsa_optimize every draw of the run has advanced the
\* backend's generator, and in spsa_optimize_multi no run has drawn both from
\* the generator it built from its seed argument and from the backend's.
C15_OneStream ==
  /\ run[1].pc # "idle" => rng[1].pos = run[1].rng0.pos + DrawsSoFar(run[1])
  /\ mrun.pc # "idle" => (mrun.rng.pos = 0 \/ mrng.pos = mrun.mrng0.pos)

(* ---------------------------- independence ---------------------------- *)
\* C16: two optimization runs that each own their backend and their lab share
\* no mutable state: however their iterations and evaluations interleave,
\* each run ends with the ledger, the generator and the returned best Trial
\* (or the error) that the same call produces when it runs alone.
C16_InterleavingEqualsAlone ==
  \A l \in Labs :
    (run[l].pc = "idle" /\ result[l].op = "spsa_optimize" /\ result[l].args # <<>>) =>
      LET d == result[l].args
          alone == SpsaOptimize(result[l].rng0, result[l].trials0,
                                d[1], d[2], d[3], d[4], d[5])
      IN /\ result[l].raised = alone.raised
         /\ trials[l] = alone.trials
         /\ rng[l] = alone.rng
         /\ result[l].trial = alone.best

\* both labs have returned from two-iteration runs that differ, and the first
\* lab's best Trial is not its last one
C16_Witness ==
  /\ Returned(1, "spsa_optimize")
  /\ Returned(2, "spsa_optimize")
  /\ Len(trials[1]) = 2
  /\ Len(trials[2]) = 2
  /\ trials[1] # trials[2]
  /\ result[1].trial = <<trials[1][1]>>
  /\ result[1].trial # result[2].trial

(* --------------------- one qubit as the case N = 1 -------------------- *)
\* C17: started from the same RNG stream position, measure_expectation_z(theta,
\* shots, p_flip) and measure_energy((theta,), shots, p_flip) consume the same
\* draws, map every draw to the same outcome and bit flip, and return the same
\* value (or both raise).
C17_SingleIsOneQubitCase ==
  ( /\ result[1].op = "measure_expectation_z"
    /\ mresult.op = "measure_energy"
    /\ mresult.mrng0 = result[1].rng0
    /\ mresult.thetas = <<result[1].args[1]>>
    /\ mresult.shots = result[1].args[2]
    /\ mresult.p_flip = result[1].args[3] )
  => /\ (mresult.error # "") = result[1].raised
     /\ mrng = rng[1]
     /\ mresult.energy = result[1].energy

(* -------------------------- bit-flip symmetry ------------------------- *)
\* C18: with noise level 1.0 every bit of every sampled outcome is flipped and
\* with 0.0 none is: two single-qubit measurements taken from the same stream
\* position at the same angle and shots, one at 0.0 and one at 1.0, use the
\* same draws and return opposite values, the one at 0.0 being the value of
\* the outcome its first draw selects; and a one-shot measure_energy
\* returns the energy of the outcome its first draw selects at 0.0 and of that
\* outcome with all its bits complemented at 1.0.
C18_FullNoiseNegates ==
  /\ ( /\ result[1].op = "measure_expectation_z" /\ ~result[1].raised
        /\ result[2].op = "measure_expectation_z" /\ ~result[2].raised
        /\ result[1].rng0 = result[2].rng0
        /\ result[1].args[1] = result[2].args[1]
        /\ result[1].args[2] = result[2].args[2]
        /\ result[1].args[3] = 0
        /\ result[2].args[3] = FlipDen )
      => /\ result[2].energy = -result[1].energy
         /\ rng[2] = rng[1]
  /\ ( /\ result[1].op = "measure_expectation_z" /\ ~result[1].raised
        /\ result[1].args[2] = 1
        /\ result[1].args[3] = 0 )
      => LET p0 == IdealProbZero(result[1].args[1])
             r == RngVal(RngNext(result[1].rng0))
             is_zero == r * p0.den < p0.num * RngMod
         IN result[1].energy = IF is_zero THEN EnergyDen ELSE -EnergyDen
  /\ ( /\ mresult.op = "measure_energy" /\ mresult.error = ""
        /\ mresult.shots = 1
        /\ mresult.p_flip \in {0, FlipDen} )
      => LET n == Len(mresult.thetas)
             probs == Probs(StatevectorFromThetas(mresult.thetas))
             drawn == SampleBitstring(mresult.mrng0, probs, AmpScale).bits
             seen == IF mresult.p_flip = FlipDen THEN (2 ^ n - 1) - drawn ELSE drawn
         IN /\ 2 * mresult.energy = EnergyForBitstring2(seen, n) * EnergyDen
            /\ mrng.pos = mresult.mrng0.pos + 1 + n

\* the same one-shot measurement was taken at noise 0.0 and at noise 1.0 from
\* one stream position, and a two-qubit outcome was measured at noise 1.0
C18_Witness ==
  /\ result[1].op = "measure_expectation_z" /\ ~result[1].raised
  /\ result[2].op = "measure_expectation_z" /\ ~result[2].raised
  /\ result[1].rng0 = result[2].rng0
  /\ result[1].args = <<1047, 1, 0>>
  /\ result[2].args = <<1047, 1, FlipDen>>
  /\ result[1].energy = EnergyDen
  /\ result[2].energy = -EnergyDen
  /\ mresult.op = "measure_energy" /\ mresult.error = ""
  /\ mresult.thetas = <<1047, 3142>>
  /\ mresult.shots = 1
  /\ mresult.p_flip = FlipDen

(* --------------------------- normalisation ---------------------------- *)
RECURSIVE SumFine(_, _)
SumFine(q, i) == IF i > Len(q) THEN FineZero ELSE AddFine(q[i], SumFine(q, i + 1))

\* x - 1 in units of 1e-12, for x within 1e-4 of 1
FineExcess(x) == (x[2] - Limb) * Limb * Limb + x[3] * Limb + x[4]

\* C19: for one to four qubits and every angle vector the outcome
\* probabilities of _statevector_from_thetas are non-negative and sum to 1
\* within 1e-9 (1000 units of 1e-12), after the rotation layer and after
\* every entangling step; the vector returned is the one after the last step.
C19_ProbabilitiesNormalised ==
  mresult.op = "_statevector_from_thetas" =>
    LET n == Len(mresult.thetas) IN
    /\ Len(mresult.stages) = n
    /\ mresult.stages[n] = mresult.state
    /\ \A k \in 1..n :
         LET probs == ProbsFine(mresult.stages[k])
             total == SumFine(probs, 1)
         IN /\ Len(probs) = 2 ^ n
            /\ \A i \in 1..Len(probs) :
                 probs[i][1] = 1 /\ probs[i][2] >= 0
            /\ total[1] = 1
            /\ Abs(total[2] - Limb) <= 1
            /\ Abs(FineExcess(total)) <= 1000

\* a four-qubit vector whose CNOT chain moved amplitude: the state after the
\* chain differs from the state after the rotations, and the probabilities,
\* no two of them equal, do not sum to 1 exactly
C19_Witness ==
  /\ mresult.op = "_statevector_from_thetas"
  /\ Len(mresult.thetas) = 4
  /\ mresult.state # mresult.stages[1]
  /\ \A i, j \in 1..16 :
       i # j => ProbsFine(mresult.state)[i] # ProbsFine(mresult.state)[j]
  /\ SumFine(ProbsFine(mresult.state), 1) # FineOne

(* ------------------------ the SPSA iteration -------------------------- *)
\* the order of one iteration: delta, plus-point, minus-point, update and
\* logged evaluation, then the next iteration or the return
IterationOrder(from, to) ==
  \/ from = "idle" /\ to \in {"delta", "return"}
  \/ from = "delta" /\ to = "plus"
  \/ from = "plus" /\ to \in {"minus", "idle"}
  \/ from = "minus" /\ to \in {"log", "idle"}
  \/ from = "log" /\ to \in {"delta", "return", "idle"}
  \/ from = "return" /\ to = "idle"

\* C20: every SPSA iteration evaluates the objective exactly three times, in
\* the order plus-point, minus-point, updated parameters, all with the shots
\* and p_flip of the call; the first two evaluations append nothing, the third
\* appends one Trial holding the updated parameters and the energy measured
\* at them, and the parameters carried into the next iteration come from the
\* first two evaluations only.
C20_ThreeEvaluations ==
  [][ /\ run'[1].pc # run[1].pc => IterationOrder(run[1].pc, run'[1].pc)
      /\ (run[1].pc # "idle" /\ run'[1].pc # "idle") =>
           /\ run'[1].shots = run[1].shots
           /\ run'[1].p_flip = run[1].p_flip
      /\ (run[1].pc \in {"plus", "minus"} /\ run'[1].pc \in {"minus", "log"}) =>
           /\ trials'[1] = trials[1]
           /\ run'[1].theta = run[1].theta
           /\ rng'[1].pos = rng[1].pos + 2 * run[1].shots
      /\ (run[1].pc = "log" /\ run'[1].pc \in {"delta", "return"}) =>
           LET f == run[1]
               t == trials'[1][Len(trials'[1])]
           IN /\ Len(trials'[1]) = Len(trials[1]) + 1
              /\ rng'[1].pos = rng[1].pos + 2 * f.shots
              /\ run'[1].theta =
                   (f.theta - SpsaStep(GainA(f.a, f.k), GainC(f.c, f.k), f.delta,
                                       f.e_plus, f.e_minus)) % TwoPi
              /\ t.step = f.k /\ t.shots = f.shots /\ t.p_flip = f.p_flip
              /\ t.theta = run'[1].theta
              /\ t.measured_energy =
                   MeasureExpectationZ(rng[1], t.theta, f.shots, f.p_flip).energy
      /\ mrun'.pc # mrun.pc => IterationOrder(mrun.pc, mrun'.pc)
      /\ (mrun.pc # "idle" /\ mrun'.pc # "idle") =>
           /\ mrun'.shots = mrun.shots
           /\ mrun'.p_flip = mrun.p_flip
      /\ (mrun.pc \in {"plus", "minus"} /\ mrun'.pc \in {"minus", "log"}) =>
           /\ mrun'.memory = mrun.memory
           /\ mrun'.thetas = mrun.thetas
           /\ mrng'.pos = mrng.pos + mrun.shots * (1 + mrun.n_qubits)
      /\ (mrun.pc = "log" /\ mrun'.pc \in {"delta", "return"}) =>
           LET f == mrun
               t == mrun'.memory[Len(mrun'.memory)]
           IN /\ Len(mrun'.memory) = Len(f.memory) + 1
              /\ mrng'.pos = mrng.pos + f.shots * (1 + f.n_qubits)
              /\ mrun'.thetas =
                   [i \in 1..f.n_qubits |->
                      (f.thetas[i] - SpsaStep(GainA(f.a, f.k), GainC(f.c, f.k),
                                              f.delta[i], f.e_plus, f.e_minus)) % TwoPi]
              /\ t.step = f.k /\ t.shots = f.shots /\ t.p_flip = f.p_flip
              /\ t.thetas = mrun'.thetas
              /\ t.measured_energy =
                   MeasureEnergy(mrng, t.thetas, f.shots, f.p_flip).energy ]_vars

\* iteration 1 of spsa_optimize is complete: its two gradient evaluations
\* differed, theta moved, and one Trial was logged after 1 + 1 + 6 * shots draws
C20_Witness ==
  /\ run[1].pc = "delta"
  /\ run[1].k = 2
  /\ run[1].e_plus # run[1].e_minus
  /\ Len(trials[1]) = Len(run[1].trials0) + 1
  /\ trials[1][Len(trials[1])].theta = run[1].theta
  /\ trials[1][Len(trials[1])].measured_energy = run[1].e_minus
  /\ run[1].p_flip > 0
  /\ rng[1].pos = run[1].rng0.pos + 2 + 6 * run[1].shots

(* --------------------------- draws per shot --------------------------- *)
\* C21: each shot takes one draw for the outcome and one draw per qubit for
\* the bit flips, whatever the outcome and whatever p_flip is: a measurement
\* call on N qubits that returns has advanced the stream by exactly
\* shots * (1 + N) draws (2 * shots for the single-qubit backend).
C21_DrawsPerCall ==
  /\ \A l \in Labs :
       (result[l].op = "measure_expectation_z" /\ ~result[l].raised) =>
         rng[l].pos = result[l].rng0.pos + result[l].args[2] * 2
  /\ (mresult.op = "measure_energy" /\ mresult.error = "") =>
       mrng.pos = mresult.mrng0.pos + mresult.shots * (1 + Len(mresult.thetas))

\* a two-qubit shot at p_flip = 0 took three draws, and a two-shot
\* single-qubit call at p_flip = 1 took four
C21_Witness ==
  /\ mresult.op = "measure_energy" /\ mresult.error = ""
  /\ Len(mresult.thetas) = 2
  /\ mresult.p_flip = 0
  /\ mrng.pos = mresult.mrng0.pos + 3
  /\ result[2].op = "measure_expectation_z" /\ ~result[2].raised
  /\ result[2].args[2] = 2
  /\ rng[2].pos = 4

(* ------------------------------ wrapping ------------------------------ *)
InRange(theta) == 0 <= theta /\ theta < TwoPi

\* C22: the optimizer's current parameters lie in [0, 2*pi) at the start and
\* end of every SPSA iteration, and every theta stored in a Trial by
\* run_experiment or by an SPSA driver lies in [0, 2*pi).
C22_AnglesWrapped ==
  /\ run[1].pc # "idle" => InRange(run[1].theta)
  /\ \A i \in 1..Len(trials[1]) : InRange(trials[1][i].theta)
  /\ mrun.pc # "idle" =>
       /\ \A i \in 1..Len(mrun.thetas) : InRange(mrun.thetas[i])
       /\ \A j \in 1..Len(mrun.memory) :
            \A i \in 1..Len(mrun.memory[j].thetas) : InRange(mrun.memory[j].thetas[i])

(* ---------------------------- SPSA update ----------------------------- *)
\* the size of the step |a_k * (E_plus - E_minus) / (2 * c_k)| in angle units
MoveSize(a, c, k, e_plus, e_minus) ==
  RoundDiv(GainA(a, k) * Abs(e_plus - e_minus) * Milli,
           2 * Abs(GainC(c, k)) * EnergyDen)

\* the side of theta on which the lower energy was measured: e_plus was
\* measured at theta + c_k * delta and e_minus at theta - c_k * delta
LowerSide(c, k, delta, e_plus, e_minus) ==
  LET s == IF GainC(c, k) < 0 THEN -delta ELSE delta
  IN IF e_plus < e_minus THEN s ELSE -s

\* C23: each SPSA iteration updates every dimension d to
\* wrap(theta_d - a_k * (E_plus - E_minus) / (2 * c_k * delta_d)) with the same
\* scalar gains for all dimensions: the parameters are unchanged when
\* E_plus = E_minus, and otherwise every dimension moves by the same amount
\* toward the side whose evaluation measured the lower energy.
C23_UpdateTowardLowerEnergy ==
  [][ /\ (run[1].pc = "log" /\ run'[1].pc \in {"delta", "return"}) =>
           LET f == run[1]
           IN IF f.e_plus = f.e_minus
              THEN run'[1].theta = f.theta
              ELSE /\ MoveSize(f.a, f.c, f.k, f.e_plus, f.e_minus) > 0
                   /\ run'[1].theta =
                        (f.theta + LowerSide(f.c, f.k, f.delta, f.e_plus, f.e_minus)
                                   * MoveSize(f.a, f.c, f.k, f.e_plus, f.e_minus)) % TwoPi
      /\ (mrun.pc = "log" /\ mrun'.pc \in {"delta", "return"}) =>
           LET f == mrun
           IN IF f.e_plus = f.e_minus
              THEN mrun'.thetas = f.thetas
              ELSE /\ MoveSize(f.a, f.c, f.k, f.e_plus, f.e_minus) > 0
                   /\ \A d \in 1..f.n_qubits :
                        mrun'.thetas[d] =
                          (f.thetas[d]
                           + LowerSide(f.c, f.k, f.delta[d], f.e_plus, f.e_minus)
                             * MoveSize(f.a, f.c, f.k, f.e_plus, f.e_minus)) % TwoPi ]_vars

(* ----------------------------- SPSA notes ------------------------------ *)
\* C24: the Trial appended by spsa_optimize at iteration k carries a note
\* "SPSA update; ..." that ends with the 'init' marker at k = 1 and with the
\* output of the ledger's diff_last_two at every k > 1.
C24_NoteOfIteration ==
  [][ (run[1].pc = "log" /\ run'[1].pc \in {"delta", "return"}) =>
        LET t == trials'[1][Len(trials'[1])]
        IN /\ t.step = run[1].k
           /\ t.note.prefix = "SPSA update; "
           /\ run[1].k = 1 => (t.note.text = "init" /\ t.note.dtheta = 0 /\ t.note.dE = 0)
           /\ run[1].k > 1 =>
                /\ t.note.text \in {NoDiffText, DiffText}
                /\ [t.note EXCEPT !.prefix = ""] = DiffLastTwo(trials[1]) ]_vars

\* the second iteration of a run has logged a Trial whose note reports a
\* change of theta, after a first iteration whose note ends with 'init'
C24_Witness ==
  /\ run[1].pc = "return"
  /\ run[1].k = 3
  /\ Len(trials[1]) >= 3
  /\ trials[1][Len(trials[1])].step = 2
  /\ trials[1][Len(trials[1])].note.prefix = "SPSA update; "
  /\ trials[1][Len(trials[1])].note.text = DiffText
  /\ trials[1][Len(trials[1])].note.dtheta # 0
  /\ trials[1][Len(trials[1]) - 1].step = 1
  /\ trials[1][Len(trials[1]) - 1].note.text = "init"

\* C25: the diff_last_two text in the note of SPSA iteration k is computed
\* before iteration k's Trial is appended: in a run on an empty ledger the
\* note of iteration 2 is the insufficient-history sentence and the note of
\* iteration k >= 3 compares the Trials of iterations k-2 and k-1.
C25_NoteLagsOneIteration ==
  (run[1].pc # "idle" /\ run[1].trials0 = <<>>) =>
    \A k \in 1..Len(trials[1]) :
      LET ts == trials[1]
      IN /\ ts[k].step = k
         /\ k = 2 => ts[k].note.text = NoDiffText
         /\ k >= 3 =>
              /\ ts[k].note.text = DiffText
              /\ ts[k].note.dtheta = 10 * (ts[k - 1].theta - ts[k - 2].theta)
              /\ 2 * Abs(ts[k].note.dE * EnergyDen
                         - 10000 * (ts[k - 1].measured_energy
                                    - ts[k - 2].measured_energy)) <= EnergyDen

\* three iterations are logged; the third note reports the change made by
\* the second iteration, which differs from the change made by the third
C25_Witness ==
  /\ run[1].pc = "return"
  /\ run[1].trials0 = <<>>
  /\ Len(trials[1]) = 3
  /\ trials[1][3].note.text = DiffText
  /\ trials[1][3].note.dtheta = 10 * (trials[1][2].theta - trials[1][1].theta)
  /\ trials[1][3].note.dtheta # 10 * (trials[1][3].theta - trials[1][2].theta)
  /\ trials[1][2].note.text = NoDiffText

(* ------------------------- what a driver returns ----------------------- *)
\* the position of the first Trial of lowest measured_energy
FirstLowest(ts) ==
  CHOOSE i \in 1..Len(ts) :
    /\ \A j \in 1..Len(ts) : ts[i].measured_energy <= ts[j].measured_energy
    /\ \A j \in 1..(i - 1) : ts[j].measured_energy > ts[i].measured_energy

DriverReturned(l) ==
  /\ result[l].op \in {"brute_force_grid_search", "spsa_optimize"}
  /\ ~result[l].raised
  /\ run[l].pc = "idle"

\* C26 as stated: the Trial returned by brute_force_grid_search or by
\* spsa_optimize is one of the Trials appended during that same call, also
\* when the ledger already held Trials.
C26_ReturnedFromSameCall ==
  \A l \in Labs :
    DriverReturned(l) =>
      /\ result[l].trial = <<trials[l][FirstLowest(trials[l])]>>
      /\ FirstLowest(trials[l]) > Len(result[l].trials0)

\* C26: the Trial returned by brute_force_grid_search or by spsa_optimize is
\* the first Trial of lowest measured_energy of the whole ledger: it was
\* appended during that same call exactly when every Trial the ledger held
\* before has a higher measured_energy than the lowest of the call's Trials,
\* and otherwise it is a Trial from before the call.
C26_ReturnedIsLedgerBest ==
  \A l \in Labs :
    DriverReturned(l) =>
      LET ts == trials[l]
          n0 == Len(result[l].trials0)
          own == SubSeq(ts, n0 + 1, Len(ts))
          low == own[FirstLowest(own)].measured_energy
      IN /\ Len(ts) > n0
         /\ SubSeq(ts, 1, n0) = result[l].trials0
         /\ IF \A j \in 1..n0 : ts[j].measured_energy > low
            THEN result[l].trial = <<own[FirstLowest(own)]>>
            ELSE /\ result[l].trial = <<ts[FirstLowest(result[l].trials0)]>>
                 /\ result[l].trial[1].measured_energy <= low

\* the grid search returned a Trial logged before the call, whose energy is below the energy of every Trial the call appended
C26_Witness ==
  /\ DriverReturned(1)
  /\ result[1].op = "brute_force_grid_search"
  /\ Len(result[1].trials0) = 1
  /\ result[1].trial = <<trials[1][1]>>
  /\ \A j \in 2..Len(trials[1]) :
       trials[1][j].measured_energy > trials[1][1].measured_energy
  /\ Len(trials[1]) = 3

(* ------------------------ _energy_for_bitstring ------------------------ *)
\* z_i of qubit i of an n-qubit bitstring, 0 for the qubits beyond n
ZOf(bits, n, i) == IF i >= n THEN 0 ELSE IF (bits \div 2 ^ i) % 2 = 0 THEN 1 ELSE -1

\* C27: for N in 1..4 _energy_for_bitstring returns the sum of z_i over the
\* qubits plus 0.5 times the sum of z_i * z_j over all pairs i < j, with
\* z_i = +1 for bit 0 and -1 for bit 1; for N = 1 this is exactly +1 or -1.
C27_EnergyOfBitstring ==
  mresult.op = "_energy_for_bitstring" =>
    LET b == mresult.bits
        n == mresult.n
        z == [i \in 0..3 |-> ZOf(b, n, i)]
    IN /\ mresult.energy2 =
            2 * (z[0] + z[1] + z[2] + z[3])
            + (z[0] * z[1] + z[0] * z[2] + z[0] * z[3]
               + z[1] * z[2] + z[1] * z[3] + z[2] * z[3])
       /\ n = 1 => mresult.energy2 = (IF b % 2 = 0 THEN 2 ELSE -2)

\* the energy of |0101> on four qubits: z = (-1, +1, -1, +1), pairs sum -2
C27_Witness ==
  /\ mresult.op = "_energy_for_bitstring"
  /\ mresult.n = 4
  /\ mresult.bits = 5
  /\ mresult.energy2 = -2

(* ---------------------- _apply_single_qubit_gate ----------------------- *)
\* C28: _apply_single_qubit_gate on qubit q updates each of the 2^(N-1) pairs
\* (i, i | 1 << q) with bit q of i clear exactly once, from the two old
\* amplitudes of the pair: every index belongs to exactly one pair, and both
\* new amplitudes are the gate applied once to the old pair.
C28_GateUpdatesPairsOnce ==
  mresult.op = "_apply_single_qubit_gate" =>
    LET b == mresult.before
        a == mresult.after
        g == mresult.gate
        q == mresult.qubit
        low == {i \in 0..(2 ^ mresult.n - 1) : (i \div 2 ^ q) % 2 = 0}
    IN /\ Cardinality(low) = 2 ^ (mresult.n - 1)
       /\ DOMAIN a = DOMAIN b
       /\ \A k \in 0..(2 ^ mresult.n - 1) :
            Cardinality({i \in low : k \in {i, i + 2 ^ q}}) = 1
       /\ \A i \in low :
            LET j == i + 2 ^ q
            IN /\ a[i + 1] = AddS(MulS(g[1], b[i + 1]), MulS(g[2], b[j + 1]))
               /\ a[j + 1] = AddS(MulS(g[3], b[i + 1]), MulS(g[4], b[j + 1]))

\* the gate (0.1, 0.2, 0.35, 0.5) applied to the middle qubit of three: the
\* pair (1, 3) of the state 0.1, 0.2, ..., 0.8 became
\* (0.1*0.2 + 0.2*0.4, 0.35*0.2 + 0.5*0.4) = (0.10, 0.27)
C28_Witness ==
  /\ mresult.op = "_apply_single_qubit_gate"
  /\ mresult.n = 3 /\ mresult.qubit = 1
  /\ mresult.before = [i \in 1..8 |-> i * 10 ^ 7]
  /\ mresult.after[2] = 10000000
  /\ mresult.after[4] = 27000000

(* ----------------------------- _apply_cnot ----------------------------- *)
\* the index that CNOT(control, target) maps the basis index i to
CnotImage(i, control, target) ==
  IF (i \div 2 ^ control) % 2 = 0 \/ control = target THEN i
  ELSE IF (i \div 2 ^ target) % 2 = 0 THEN i + 2 ^ target ELSE i - 2 ^ target

\* the amplitude of basis index i after the rotation of every qubit of |0..0>
ProductAmplitude(thetas, i) ==
  LET f(q) == IF q >= Len(thetas) THEN AmpScale
              ELSE IF (i \div 2 ^ q) % 2 = 0 THEN CosHalf(thetas[q + 1])
              ELSE SinHalf(thetas[q + 1])
  IN MulS(MulS(f(0), f(1)), f(2))

\* C29: _apply_cnot exchanges the amplitudes of exactly the pairs
\* (i, i | 1 << target) whose control bit is set and whose target bit is clear
\* and leaves every index with the control bit clear unchanged, so it is a
\* permutation of the amplitudes that is its own inverse; the state
\* preparation applies it for (i, i + 1), i = 0..N-2 in increasing order,
\* after all N rotations.
C29_CnotExchangesPairs ==
  /\ mresult.op = "_apply_cnot" =>
       LET b == mresult.before
           a == mresult.after
           idx == 0..(2 ^ mresult.n - 1)
           img == [i \in idx |-> CnotImage(i, mresult.control, mresult.target)]
       IN /\ DOMAIN a = DOMAIN b
          /\ \A i \in idx : a[i + 1] = b[img[i] + 1]
          /\ \A i \in idx : (i \div 2 ^ mresult.control) % 2 = 0 => a[i + 1] = b[i + 1]
          /\ {img[i] : i \in idx} = idx
          /\ mresult.again = b
  /\ mresult.op = "_statevector_from_thetas" =>
       LET n == Len(mresult.thetas)
           st == mresult.stages
           idx == 0..(2 ^ n - 1)
       IN /\ Len(st) = n
          /\ n <= 3 => \A i \in idx : st[1][i + 1] = ProductAmplitude(mresult.thetas, i)
          /\ \A k \in 1..(n - 1) :
               \A i \in idx : st[k + 1][i + 1] = st[k][CnotImage(i, k - 1, k) + 1]
          /\ mresult.state = st[n]

\* CNOT(0, 1) on three qubits exchanged the amplitudes of 1 and 3 and of 5
\* and 7 of the state 0.1, 0.2, ..., 0.8
C29_Witness ==
  /\ mresult.op = "_apply_cnot"
  /\ mresult.n = 3 /\ mresult.control = 0 /\ mresult.target = 1
  /\ mresult.before = [i \in 1..8 |-> i * 10 ^ 7]
  /\ mresult.after = [i \in 1..8 |-> (CASE i = 2 -> 4 [] i = 4 -> 2 [] i = 6 -> 8
                                         [] i = 8 -> 6 [] OTHER -> i) * 10 ^ 7]
  /\ mresult.again = mresult.before

(* --------------------------- _sample_bitstring ------------------------- *)
\* C30: for every draw in [0, 1) and every probability list summing to 1,
\* _sample_bitstring returns an index in 0..len(probs)-1 and never an index
\* whose probability is 0.
C30_SampleHasProbability ==
  mresult.op = "_sample_bitstring" =>
    /\ mresult.bits \in 0..(Len(mresult.probs) - 1)
    /\ mresult.probs[mresult.bits + 1] > 0

====
